---- MODULE Spec2Model ----
(***************************************************************************)
(* Model of the DAO analytics API: the holder-statistics engine            *)
(* (utils/fetch/token_stats.ts), the manual refresh routes                 *)
(* (routes/dao/token.ts, routes/dao/treasury.ts) and the daily refresh     *)
(* (utils/schedule).                                                       *)
(*                                                                         *)
(* Amounts are fixed-point integers counted in hundredths of a token       *)
(* (Scale), so the dust threshold 0.01 is the integer 1.  The rounding of  *)
(* the IEEE-754 doubles the program computes with is not modelled.         *)
(***************************************************************************)
EXTENDS Integers, Sequences, FiniteSets, TLC

\* ---------------------------------------------------------------- bounds
MaxBlock == 3          \* highest block the chain reaches
MaxBatch == 2          \* largest window size tried (the code uses 100000)
MaxWinEvents == 2      \* most events the provider returns for one window
MaxReplay64 == 2         \* events replayed on binary64 balances
MaxReplay == 3         \* longest event sequence replayed on its own
MaxDecimals == 2       \* token decimals range over {0, MaxDecimals}
MaxChainEvents == 2    \* most Transfer logs of a chain scanned as a whole
MaxRequests == 2       \* manual refresh requests in one run
MaxPasses == 1         \* runs of dailyRefresh in one run
MaxClock == 15         \* minutes the clock runs for
TickMinutes == 15      \* minutes per clock step

\* ------------------------------------------------------ program constants
Scale == 100           \* hundredths: 1 token = Scale units
minBalanceThreshold == 1   \* 0.01 token, in hundredths
TopN == 10             \* filteredHolders.slice(0, 10)
RecomputeMinutes == 15 \* if (timeDifference < 15)

Addr == {"0x0", "A", "B"}
ContractAddrs == {"B"}     \* addresses with code deployed (getCode # '0x')
RawValues == {0, 1, 2}     \* raw uint256 amounts of Transfer events
SupplyRaw == {0, 2, 150}   \* raw totalSupply() values

VARIABLES
  \* --- holder-statistics engine (one call of getTokenStats)
  pc,            \* position in getTokenStats/fetchHolders
  infuraKey,     \* process.env.INFURA_KEY is set
  decimals,      \* argument
  startBlock,    \* argument
  batchSize,     \* window size
  chainHeight,   \* the chain's current height (grows while scanning)
  totalSupply,   \* whole tokens
  endBlock,
  fromBlock,
  toBlock,
  holders,       \* the Map<string, number>, in insertion order
  thrown,        \* the calls that threw so far
  reqLog,        \* every request sent to the provider / CoinGecko, in order
  topHolders,    \* records being classified
  pendingCode,   \* indices of topHolders whose getCode has not settled
  holdersStats,  \* what fetchHolders returned
  result,        \* what getTokenStats returned
  \* --- the replay loop and the window loop on their own
  replayed,      \* the events replayed so far
  chain,         \* the contract's Transfer logs: <<block, event>>, ascending
  \* --- refresh routes and daily refresh
  clock,             \* wall clock, minutes
  isRunningToken,    \* `let isRunning` of routes/dao/token.ts
  isRunningTreasury, \* `let isRunning` of routes/dao/treasury.ts
  tokenDb,           \* TokenModel documents, by token
  treasuryDb,        \* TreasuryModel documents, by DAO
  reqs,              \* the POST /refresh requests, by arrival
  daily,             \* the dailyRefresh pass
  \* --- one call of fetchWithRetry
  attempts,      \* `let attempts`
  maxRetries,    \* argument
  delay,         \* argument, milliseconds
  fetchPc,       \* position in fetchWithRetry
  responses,     \* the answer to every axios.post sent, in order
  waits,         \* every waitTime slept, in order, milliseconds
  fetchResult,   \* how the call ended
  \* --- two calls of getTokenStats under way at once
  scans,         \* by call: its arguments and its local variables
  \* --- GET /treasury/:dao: one call of getClosestValue
  returns,       \* historicalData, targetTime and the value returned
  \* --- GET /chart/:query for one (id, days) key
  chart          \* the clock, the two caches, the requests, the upstream calls

engineVars == <<pc, infuraKey, decimals, startBlock, batchSize, chainHeight,
                totalSupply, endBlock, fromBlock, toBlock, holders,
                thrown, reqLog, topHolders, pendingCode, holdersStats,
                result>>

routeVars == <<clock, isRunningToken, isRunningTreasury, tokenDb, treasuryDb,
               reqs, daily>>

retryVars == <<attempts, maxRetries, delay, fetchPc, responses, waits, fetchResult>>

nonEngineVars == <<replayed, chain, routeVars, retryVars, scans, returns, chart>>

vars == <<engineVars, nonEngineVars>>

\* ------------------------------------------------------------ arithmetic
RECURSIVE Pow10(_)
Pow10(n) == IF n = 0 THEN 1 ELSE 10 * Pow10(n - 1)

Min(a, b) == IF a <= b THEN a ELSE b

\* ethers.formatUnits(raw, decimals) then parseFloat: the amount in hundredths
FormatUnits(raw, d) == (raw * Scale) \div Pow10(d)

\* Math.round of an amount in hundredths: whole tokens, halves rounded up
MathRound(h) == (h + (Scale \div 2)) \div Scale

\* (num / den).toFixed(2) for num, den >= 0: hundredths, halves rounded up
\* (the whole part of the quotient is taken out first to keep the products small)
ToFixed2(num, den) ==
  (num \div den) * 100 + (2 * (num % den) * 100 + den) \div (2 * den)

\* ------------------------------------------- JavaScript numbers (binary64)
\* A finite number is (-1)^neg * m * 2^e with m a natural number written as
\* its bits, least significant first, m odd; zero has no bits.  Exponents are
\* not bounded: the amounts of a ledger stay far from overflow and from the
\* subnormal range.  -0 is not told apart from 0.
Precision == 53
ParseShift == 2 * Precision

Max(a, b) == IF a >= b THEN a ELSE b
Bit(x, i) == IF i \in 1..Len(x) THEN x[i] ELSE 0

\* the index of the highest one bit of x, 0 when there is none
TopBit(x) ==
  IF \A i \in 1..Len(x) : x[i] = 0 THEN 0
  ELSE CHOOSE i \in 1..Len(x) : x[i] = 1 /\ \A j \in (i + 1)..Len(x) : x[j] = 0

\* the high zero bits removed
Trim(x) == SubSeq(x, 1, TopBit(x))

RECURSIVE ToBits(_)
ToBits(n) == IF n = 0 THEN << >> ELSE <<n % 2>> \o ToBits(n \div 2)

ShiftLeft(x, k) ==
  IF x = << >> THEN x ELSE [i \in 1..(Len(x) + k) |-> IF i <= k THEN 0 ELSE x[i - k]]
ShiftRight(x, k) ==
  IF k >= Len(x) THEN << >> ELSE [i \in 1..(Len(x) - k) |-> x[i + k]]

RECURSIVE AddRange(_, _, _, _, _)
\* bits lo..hi of x + y given the carry into bit lo: the sum bits and the carry out
AddRange(x, y, lo, hi, cin) ==
  IF lo = hi
  THEN LET t == Bit(x, lo) + Bit(y, lo) + cin IN [bits |-> <<t % 2>>, c |-> t \div 2]
  ELSE LET mid == (lo + hi) \div 2
           low == AddRange(x, y, lo, mid, cin)
           high == AddRange(x, y, mid + 1, hi, low.c)
       IN [bits |-> low.bits \o high.bits, c |-> high.c]

AddMag(x, y) == Trim(AddRange(x, y, 1, Max(Len(x), Len(y)) + 1, 0).bits)

RECURSIVE SubRange(_, _, _, _, _)
\* bits lo..hi of x - y given the borrow taken from bit lo
SubRange(x, y, lo, hi, bin) ==
  IF lo = hi
  THEN LET t == Bit(x, lo) - Bit(y, lo) - bin
       IN [bits |-> <<(t + 2) % 2>>, c |-> IF t < 0 THEN 1 ELSE 0]
  ELSE LET mid == (lo + hi) \div 2
           low == SubRange(x, y, lo, mid, bin)
           high == SubRange(x, y, mid + 1, hi, low.c)
       IN [bits |-> low.bits \o high.bits, c |-> high.c]

\* x - y for x >= y
SubMag(x, y) == IF x = << >> THEN x ELSE Trim(SubRange(x, y, 1, Len(x), 0).bits)

LessMag(x, y) ==
  IF Len(x) # Len(y) THEN Len(x) < Len(y)
  ELSE \E i \in 1..Len(x) :
         x[i] < y[i] /\ \A j \in (i + 1)..Len(x) : x[j] = y[j]

\* the number of zero bits of x below its lowest one bit
LowZeros(x) == (CHOOSE i \in 1..Len(x) : x[i] = 1 /\ \A j \in 1..(i - 1) : x[j] = 0) - 1

F64Zero == [neg |-> FALSE, m |-> << >>, e |-> 0]
Canon(neg, m, e) ==
  IF m = << >> THEN F64Zero
  ELSE LET z == LowZeros(m) IN [neg |-> neg, m |-> ShiftRight(m, z), e |-> e + z]
Negate(a) == IF a.m = << >> THEN a ELSE [a EXCEPT !.neg = ~a.neg]

\* a + b as a real number, nothing rounded
ExactAdd(a, b) ==
  IF a.m = << >> THEN b
  ELSE IF b.m = << >> THEN a
  ELSE LET e == Min(a.e, b.e)
           x == ShiftLeft(a.m, a.e - e)
           y == ShiftLeft(b.m, b.e - e)
       IN IF a.neg = b.neg THEN Canon(a.neg, AddMag(x, y), e)
          ELSE IF LessMag(x, y) THEN Canon(b.neg, SubMag(y, x), e)
          ELSE Canon(a.neg, SubMag(x, y), e)

\* the nearest number of 53 significant bits, ties to even
Round53(a) ==
  IF Len(a.m) <= Precision THEN a
  ELSE LET k == Len(a.m) - Precision
           kept == ShiftRight(a.m, k)
           half == a.m[k] = 1
           sticky == \E i \in 1..(k - 1) : a.m[i] = 1
           up == half /\ (sticky \/ kept[1] = 1)
       IN Canon(a.neg, IF up THEN AddMag(kept, <<1>>) ELSE kept, a.e + k)

\* the + and - of two numbers
F64Add(a, b) == Round53(ExactAdd(a, b))
F64Sub(a, b) == Round53(ExactAdd(a, Negate(b)))

RECURSIVE DivRange(_, _, _, _, _)
\* bits hi down to lo of x divided by the small number D, given the remainder
\* left by the bits above (which are divided first): quotient bits, remainder
DivRange(x, D, lo, hi, rin) ==
  IF lo = hi
  THEN LET cur == 2 * rin + x[lo] IN [q |-> <<cur \div D>>, r |-> cur % D]
  ELSE LET mid == (lo + hi) \div 2
           high == DivRange(x, D, mid + 1, hi, rin)
           low == DivRange(x, D, lo, mid, high.r)
       IN IF high.r < D THEN [q |-> low.q \o high.q, r |-> low.r] ELSE high

\* parseFloat(ethers.formatUnits(raw, d)): the number nearest to raw / 10^d
ParseFloat(raw, d) ==
  IF raw = 0 THEN F64Zero
  ELSE LET x == ShiftLeft(ToBits(raw), ParseShift)
           dv == DivRange(x, Pow10(d), 1, Len(x), 0)
           inexact == IF dv.r = 0 THEN 0 ELSE 1
       IN Round53(Canon(FALSE, <<inexact>> \o Trim(dv.q), -ParseShift - 1))

\* -------------------------------------------------------- transfer events
OkEvents == { [args |-> TRUE, from |-> f, to |-> t, raw |-> r, decodable |-> TRUE] :
                f \in Addr, t \in Addr, r \in RawValues }
NoArgsEvent == [args |-> FALSE, from |-> "", to |-> "", raw |-> 0, decodable |-> TRUE]
NoFromEvent == [args |-> TRUE, from |-> "", to |-> "A", raw |-> 1, decodable |-> TRUE]
NoToEvent == [args |-> TRUE, from |-> "A", to |-> "", raw |-> 1, decodable |-> TRUE]
BadValueEvent == [args |-> TRUE, from |-> "A", to |-> "B", raw |-> 1, decodable |-> FALSE]
EventPool == OkEvents \cup {NoArgsEvent, NoFromEvent, NoToEvent, BadValueEvent}

\* ------------------------------------------------------- the Map ledger
EmptyMap == << >>
Has(m, a) == \E i \in 1..Len(m) : m[i].holder = a
Get(m, a) == LET i == CHOOSE i \in 1..Len(m) : m[i].holder = a IN m[i].balance
GetOr0(m, a) == IF Has(m, a) THEN Get(m, a) ELSE 0
\* Map.set: an existing key keeps its place, a new key goes last
MapSet(m, a, v) ==
  IF Has(m, a)
  THEN [i \in 1..Len(m) |-> IF m[i].holder = a THEN [holder |-> a, balance |-> v] ELSE m[i]]
  ELSE Append(m, [holder |-> a, balance |-> v])

RECURSIVE SumBalances(_)
SumBalances(m) == IF m = << >> THEN 0 ELSE Head(m).balance + SumBalances(Tail(m))

\* the event is skipped: no args, a falsy from/to/value, or a value that
\* formatUnits cannot decode
Skipped(e) == \/ ~e.args
              \/ e.from = "" \/ e.to = "" \/ e.raw = 0
              \/ ~e.decodable

\* mutant: both balances are read before either is written
ApplyTransferStale(m, from, to, value) ==
  LET m1 == IF Has(m, from) THEN m ELSE MapSet(m, from, 0)
      m2 == IF Has(m1, to) THEN m1 ELSE MapSet(m1, to, 0)
  IN MapSet(MapSet(m2, from, Get(m2, from) - value), to, Get(m2, to) + value)

\* mutant: the sender is not debited
ApplyTransferCreditOnly(m, from, to, value) ==
  LET m1 == IF Has(m, from) THEN m ELSE MapSet(m, from, 0)
      m2 == IF Has(m1, to) THEN m1 ELSE MapSet(m1, to, 0)
  IN MapSet(m2, to, GetOr0(m2, to) + value)

ApplyTransfer(m, from, to, value) ==
  LET m1 == IF Has(m, from) THEN m ELSE MapSet(m, from, 0)
      m2 == IF Has(m1, to) THEN m1 ELSE MapSet(m1, to, 0)
      m3 == MapSet(m2, from, GetOr0(m2, from) - value)
  IN MapSet(m3, to, GetOr0(m3, to) + value)

\* mutant: the entries of both parties are created before the amount is decoded
ApplyEventEntriesFirst(m, e, d) ==
  IF ~e.args \/ e.from = "" \/ e.to = "" \/ e.raw = 0 THEN m
  ELSE LET m1 == IF Has(m, e.from) THEN m ELSE MapSet(m, e.from, 0)
           m2 == IF Has(m1, e.to) THEN m1 ELSE MapSet(m1, e.to, 0)
       IN IF ~e.decodable THEN m2
          ELSE ApplyTransfer(m2, e.from, e.to, FormatUnits(e.raw, d))

\* one iteration of `for (const event of events)`
ApplyEvent(m, e, d) ==
  IF Skipped(e) THEN m ELSE ApplyTransfer(m, e.from, e.to, FormatUnits(e.raw, d))

RECURSIVE Replay(_, _, _)
Replay(m, events, d) ==
  IF events = << >> THEN m ELSE Replay(ApplyEvent(m, Head(events), d), Tail(events), d)

\* the ledger update on numbers: lines 174-178
ApplyTransfer64(m, from, to, value) ==
  LET m1 == IF Has(m, from) THEN m ELSE MapSet(m, from, F64Zero)
      m2 == IF Has(m1, to) THEN m1 ELSE MapSet(m1, to, F64Zero)
      m3 == MapSet(m2, from, F64Sub(Get(m2, from), value))
  IN MapSet(m3, to, F64Add(Get(m3, to), value))

ApplyEvent64(m, e, d) ==
  IF Skipped(e) THEN m ELSE ApplyTransfer64(m, e.from, e.to, ParseFloat(e.raw, d))

RECURSIVE SumExact(_)
\* the sum of the balances as a real number
SumExact(m) == IF m = << >> THEN F64Zero ELSE ExactAdd(Head(m).balance, SumExact(Tail(m)))

\* ---------------------------------------------------- filtering, sorting
\* mutant: the filter keeps the balances below the threshold
RECURSIVE FilterBelow(_, _)
FilterBelow(m, threshold) ==
  IF m = << >> THEN << >>
  ELSE IF Head(m).balance < threshold
       THEN <<Head(m)>> \o FilterBelow(Tail(m), threshold)
       ELSE FilterBelow(Tail(m), threshold)

RECURSIVE FilterAbove(_, _)
FilterAbove(m, threshold) ==
  IF m = << >> THEN << >>
  ELSE IF Head(m).balance > threshold
       THEN <<Head(m)>> \o FilterAbove(Tail(m), threshold)
       ELSE FilterAbove(Tail(m), threshold)

\* place x in a descending list behind every element that is not smaller
RECURSIVE InsertDesc(_, _)
InsertDesc(sorted, x) ==
  IF sorted = << >> THEN <<x>>
  ELSE IF Head(sorted).balance >= x.balance
       THEN <<Head(sorted)>> \o InsertDesc(Tail(sorted), x)
       ELSE <<x>> \o sorted

\* Array.prototype.sort((a, b) => b.balance - a.balance): stable, descending
RECURSIVE SortDesc(_)
SortDesc(s) ==
  IF s = << >> THEN << >>
  ELSE InsertDesc(SortDesc(SubSeq(s, 1, Len(s) - 1)), s[Len(s)])

\* mutant: the filter keeps a balance equal to the threshold
FilteredHoldersInclusive(m) == SortDesc(FilterAbove(m, minBalanceThreshold - 1))

\* .filter(balance > minBalanceThreshold).sort(...)
FilteredHolders(m) == SortDesc(FilterAbove(m, minBalanceThreshold))

\* mutant: the slice ignores its end index
SliceToEnd(s, lo, hi) == SubSeq(s, lo + 1, Len(s))

\* Array.prototype.slice(lo, hi), 0-based and clipped
Slice(s, lo, hi) == SubSeq(s, lo + 1, Min(hi, Len(s)))

\* ------------------------------------------------------- calculateStats
walletGroups == << [rangeStart |-> 0, rangeEnd |-> 10],
                   [rangeStart |-> 10, rangeEnd |-> 25],
                   [rangeStart |-> 25, rangeEnd |-> 50],
                   [rangeStart |-> 50, rangeEnd |-> 80] >>

\* a / b as an exact fraction; 0 is 0/1
Frac(a, b) == [num |-> a, den |-> b]
ZeroFrac == Frac(0, 1)

\* mutant: a bucket also takes the holder at its end index
GroupStatInclusive(sorted, totalTokens, g) ==
  LET totalWallets == Len(sorted)
      rangeStartIndex == (g.rangeStart * totalWallets) \div 100
      rangeEndIndex == (g.rangeEnd * totalWallets) \div 100
      walletsInRange == Slice(sorted, rangeStartIndex, rangeEndIndex + 1)
      cumulativeBalance == SumBalances(walletsInRange)
  IN [ rangeStart |-> g.rangeStart,
       rangeEnd |-> g.rangeEnd,
       walletsCount |-> Len(walletsInRange),
       walletsHoldingPercentage |->
         IF totalTokens > 0 THEN Frac(cumulativeBalance * 100, totalTokens) ELSE ZeroFrac,
       cumulativeBalance |-> cumulativeBalance ]

GroupStat(sorted, totalTokens, g) ==
  LET totalWallets == Len(sorted)
      rangeStartIndex == (g.rangeStart * totalWallets) \div 100
      rangeEndIndex == (g.rangeEnd * totalWallets) \div 100
      walletsInRange == Slice(sorted, rangeStartIndex, rangeEndIndex)
      cumulativeBalance == SumBalances(walletsInRange)
  IN [ rangeStart |-> g.rangeStart,
       rangeEnd |-> g.rangeEnd,
       walletsCount |-> Len(walletsInRange),
       walletsHoldingPercentage |->
         IF totalTokens > 0 THEN Frac(cumulativeBalance * 100, totalTokens) ELSE ZeroFrac,
       cumulativeBalance |-> cumulativeBalance ]

\* mutant: an even count reports the lower of the two middle balances
calculateStatsLowerMiddle(holdersArray) ==
  LET totalTokens == SumBalances(holdersArray)
      sorted == SortDesc(holdersArray)
      totalWallets == Len(sorted)
      middleIndex == totalWallets \div 2
      averageBalance == IF totalWallets > 0
                        THEN (2 * totalTokens + totalWallets) \div (2 * totalWallets)
                        ELSE 0
      medianBalance ==
        IF totalWallets = 0 THEN 0
        ELSE IF totalWallets % 2 = 0
             THEN sorted[middleIndex + 1].balance
             ELSE sorted[middleIndex + 1].balance
  IN [ totalWallets |-> totalWallets,
       averageBalance |-> averageBalance,
       medianBalance |-> medianBalance,
       groupStats |-> [i \in 1..Len(walletGroups) |->
                         GroupStat(sorted, totalTokens, walletGroups[i])] ]

calculateStats(holdersArray) ==
  LET totalTokens == SumBalances(holdersArray)
      sorted == SortDesc(holdersArray)
      totalWallets == Len(sorted)
      middleIndex == totalWallets \div 2
      averageBalance == IF totalWallets > 0
                        THEN (2 * totalTokens + totalWallets) \div (2 * totalWallets)
                        ELSE 0
      medianBalance ==
        IF totalWallets = 0 THEN 0
        ELSE IF totalWallets % 2 = 0
             THEN (sorted[middleIndex].balance + sorted[middleIndex + 1].balance + 1) \div 2
             ELSE sorted[middleIndex + 1].balance
  IN [ totalWallets |-> totalWallets,
       averageBalance |-> averageBalance,
       medianBalance |-> medianBalance,
       groupStats |-> [i \in 1..Len(walletGroups) |->
                         GroupStat(sorted, totalTokens, walletGroups[i])] ]

\* ------------------------------------------- documents and request records
Tokens == <<"t1", "t2">>
Daos == <<"d1">>
Range(q) == { q[i] : i \in 1..Len(q) }

NoToken == [exists |-> FALSE, last_updated |-> 0, total_holders |-> 0, holders_graph |-> << >>]
NoTreasury == [exists |-> FALSE, last_updated |-> 0, total_treasury_value |-> 0,
               tokens |-> << >>, historical_treasury |-> << >>]
OldToken == [exists |-> TRUE, last_updated |-> 0, total_holders |-> 0, holders_graph |-> << >>]
OldTreasury == [exists |-> TRUE, last_updated |-> 0, total_treasury_value |-> 0,
                tokens |-> << >>, historical_treasury |-> << >>]

NoReq == [kind |-> "none", target |-> "", pc |-> "none", date |-> 0, status |-> 0,
          tokenEntry |-> NoToken, treasuryEntry |-> NoTreasury,
          jobAtArrival |-> FALSE, recentAtDate |-> FALSE, scanResult |-> "none",
          stored |-> "none"]
NoDaily == [pc |-> "idle", passes |-> 0, list |-> << >>, i |-> 0, date |-> 0,
            tokenEntry |-> NoToken, treasuryEntry |-> NoTreasury, scanResult |-> "none",
            stored |-> "none"]

RoutesIdle ==
  /\ clock = 0
  /\ isRunningToken = FALSE
  /\ isRunningTreasury = FALSE
  /\ tokenDb = [t \in Range(Tokens) |-> NoToken]
  /\ treasuryDb = [d \in Range(Daos) |-> NoTreasury]
  /\ reqs = [id \in 1..MaxRequests |-> NoReq]
  /\ daily = NoDaily

\* ------------------------------------------------------- fetchWithRetry
DefaultMaxRetries == 7
DefaultDelay == 1000

\* error.response.headers['retry-after']: absent, or a number of seconds
RetryAfterHeaders == {<< >>, <<0>>, <<3>>}

Response(status, retryAfter) == [status |-> status, retryAfter |-> retryAfter]
\* an error with no response has no status; 500 stands for the other statuses
OtherStatuses == {0, 500}

\* mutant: the retry-after header is not read
WaitTimeBackoffOnly(retryAfter, d, n) == d * 2 ^ n

\* retryAfter ? parseFloat(retryAfter) * 1000 : delay * Math.pow(2, attempts)
WaitTime(retryAfter, d, n) ==
  IF Len(retryAfter) > 0 THEN retryAfter[1] * 1000 ELSE d * 2 ^ n

\* no pair of calls is under way
ScanIds == {1, 2}
ScansIdle == scans = [s \in ScanIds |-> [pc |-> "idle"]]

\* no call of getClosestValue yet, on an empty history
ReturnsIdle ==
  returns = [pc |-> "idle", historicalData |-> << >>, targetTime |-> 0, pastValue |-> << >>]

\* new NodeCache(...) twice: both caches empty, no request yet
NoChartReq == [pc |-> "none", status |-> 0, body |-> << >>, upstream |-> FALSE,
               dataAtArrival |-> << >>, notFoundAtArrival |-> FALSE]
ChartIdle ==
  chart = [now |-> 0, cache |-> << >>, cache404 |-> << >>, upstreamCalls |-> 0,
           reqs |-> << >>]

\* no call of fetchWithRetry is under way
RetryIdle ==
  /\ attempts = 0
  /\ maxRetries = DefaultMaxRetries
  /\ delay = DefaultDelay
  /\ fetchPc = "idle"
  /\ responses = << >>
  /\ waits = << >>
  /\ fetchResult = "pending"

\* axios.post resolved: return response.data
PostOk ==
  /\ fetchPc = "post"
  /\ responses' = Append(responses, Response(200, << >>))
  /\ fetchResult' = "data"
  /\ fetchPc' = "returned"
  /\ UNCHANGED <<attempts, maxRetries, delay, waits>>
  /\ UNCHANGED <<engineVars, replayed, chain, routeVars, scans, returns, chart>>

\* axios.post rejected with status 429: the wait is computed and started
PostRateLimited ==
  /\ fetchPc = "post"
  /\ \E retryAfter \in RetryAfterHeaders :
       /\ responses' = Append(responses, Response(429, retryAfter))
       /\ waits' = Append(waits, WaitTime(retryAfter, delay, attempts))
  /\ fetchPc' = "wait"
  /\ UNCHANGED <<attempts, maxRetries, delay, fetchResult>>
  /\ UNCHANGED <<engineVars, replayed, chain, routeVars, scans, returns, chart>>

\* axios.post rejected otherwise: throw error
PostError ==
  /\ fetchPc = "post"
  /\ \E status \in OtherStatuses :
       responses' = Append(responses, Response(status, << >>))
  /\ fetchResult' = "error"
  /\ fetchPc' = "threw"
  /\ UNCHANGED <<attempts, maxRetries, delay, waits>>
  /\ UNCHANGED <<engineVars, replayed, chain, routeVars, scans, returns, chart>>

\* the timer fired: attempts++, then the loop test; past the loop the
\* function throws 'Max retries exceeded'
WaitOver ==
  /\ fetchPc = "wait"
  /\ attempts' = attempts + 1
  /\ IF attempts' < maxRetries
     THEN fetchPc' = "post" /\ fetchResult' = fetchResult
     ELSE fetchPc' = "threw" /\ fetchResult' = "maxRetries"
  /\ UNCHANGED <<maxRetries, delay, responses, waits>>
  /\ UNCHANGED <<engineVars, replayed, chain, routeVars, scans, returns, chart>>

RetryInit ==
  /\ pc = "idle"
  /\ infuraKey = TRUE
  /\ decimals = 0
  /\ startBlock = 0
  /\ batchSize = 1
  /\ chainHeight = 0
  /\ totalSupply = 0
  /\ endBlock = 0
  /\ fromBlock = 0
  /\ toBlock = 0
  /\ holders = EmptyMap
  /\ thrown = {}
  /\ reqLog = << >>
  /\ topHolders = << >>
  /\ pendingCode = {}
  /\ holdersStats = [ok |-> FALSE]
  /\ result = [ok |-> FALSE]
  /\ replayed = << >>
  /\ chain = << >>
  /\ RoutesIdle
  /\ attempts = 0
  /\ maxRetries \in {1, 2, DefaultMaxRetries}
  /\ delay = DefaultDelay
  /\ fetchPc = "post"
  /\ responses = << >>
  /\ waits = << >>
  /\ fetchResult = "pending"
  /\ ScansIdle
  /\ ReturnsIdle
  /\ ChartIdle

SpecRetry == RetryInit /\ [][PostOk \/ PostRateLimited \/ PostError \/ WaitOver]_vars

\* ----------------------------------------------------- the engine's run
Null == [ok |-> FALSE]
NullCap == -1                \* marketCap: null

Req(op, from, to, addr) == [op |-> op, from |-> from, to |-> to, addr |-> addr]

\* the events a log request can return for one window
ScanPool == { [args |-> TRUE, from |-> "0x0", to |-> "A", raw |-> 2, decodable |-> TRUE],
              [args |-> TRUE, from |-> "A", to |-> "B", raw |-> 1, decodable |-> TRUE],
              [args |-> TRUE, from |-> "0x0", to |-> "B", raw |-> 2, decodable |-> TRUE],
              BadValueEvent }
RECURSIVE SeqsUpTo(_, _)
SeqsUpTo(S, n) ==
  IF n = 0 THEN { << >> }
  ELSE LET shorter == SeqsUpTo(S, n - 1)
       IN shorter \cup { Append(q, x) : q \in shorter, x \in S }
WindowResponses == SeqsUpTo(ScanPool, MaxWinEvents)

Terminal == pc \in {"done", "failed"}

EngineInit ==
  /\ pc = "idle"
  /\ infuraKey \in BOOLEAN
  /\ decimals \in {0, MaxDecimals}
  /\ startBlock \in 0..MaxBlock
  /\ batchSize \in 1..MaxBatch
  /\ chainHeight \in 0..MaxBlock
  /\ totalSupply = 0
  /\ endBlock = 0
  /\ fromBlock = 0
  /\ toBlock = 0
  /\ holders = EmptyMap
  /\ thrown = {}
  /\ reqLog = << >>
  /\ topHolders = << >>
  /\ pendingCode = {}
  /\ holdersStats = Null
  /\ result = Null
  /\ replayed = << >>
  /\ chain = << >>
  /\ RoutesIdle
  /\ RetryIdle
  /\ ScansIdle
  /\ ReturnsIdle
  /\ ChartIdle

\* the chain grows by a block while the engine runs
MineBlock ==
  /\ ~Terminal
  /\ chainHeight < MaxBlock
  /\ chainHeight' = chainHeight + 1
  /\ UNCHANGED <<pc, infuraKey, decimals, startBlock, batchSize, totalSupply,
                 endBlock, fromBlock, toBlock, holders, thrown, reqLog,
                 topHolders, pendingCode, holdersStats, result>>
  /\ UNCHANGED nonEngineVars

\* fetchHolders returned null: getTokenStats returns null
FetchHoldersNull(op) ==
  /\ thrown' = thrown \cup {op}
  /\ pc' = "failed"
  /\ holdersStats' = Null
  /\ result' = Null

\* provider and contract set up; totalSupply() is called
StartOk ==
  /\ pc = "idle"
  /\ infuraKey
  /\ pc' = "totalSupply"
  /\ reqLog' = Append(reqLog, Req("totalSupply", 0, 0, ""))
  /\ UNCHANGED <<infuraKey, decimals, startBlock, batchSize, chainHeight,
                 totalSupply, endBlock, fromBlock, toBlock, holders,
                 thrown, topHolders, pendingCode, holdersStats, result>>
  /\ UNCHANGED nonEngineVars

\* no Infura key, or the contract instance cannot be created
StartFail ==
  /\ pc = "idle"
  /\ FetchHoldersNull("init")
  /\ UNCHANGED <<infuraKey, decimals, startBlock, batchSize, chainHeight,
                 totalSupply, endBlock, fromBlock, toBlock, holders,
                 reqLog, topHolders,
                 pendingCode>>
  /\ UNCHANGED nonEngineVars

TotalSupplyOk ==
  /\ pc = "totalSupply"
  /\ \E supply \in SupplyRaw :
       totalSupply' = MathRound(FormatUnits(supply, decimals))
  /\ pc' = "getBlockNumber"
  /\ reqLog' = Append(reqLog, Req("getBlockNumber", 0, 0, ""))
  /\ UNCHANGED <<infuraKey, decimals, startBlock, batchSize, chainHeight,
                 endBlock, fromBlock, toBlock, holders, thrown,
                 topHolders, pendingCode, holdersStats, result>>
  /\ UNCHANGED nonEngineVars

TotalSupplyFail ==
  /\ pc = "totalSupply"
  /\ FetchHoldersNull("totalSupply")
  /\ UNCHANGED <<infuraKey, decimals, startBlock, batchSize, chainHeight,
                 totalSupply, endBlock, fromBlock, toBlock, holders,
                 reqLog, topHolders,
                 pendingCode>>
  /\ UNCHANGED nonEngineVars

GetBlockNumberOk ==
  /\ pc = "getBlockNumber"
  /\ endBlock' = chainHeight
  /\ fromBlock' = startBlock
  /\ pc' = "loop"
  /\ UNCHANGED <<infuraKey, decimals, startBlock, batchSize, chainHeight,
                 totalSupply, toBlock, holders, thrown, reqLog,
                 topHolders, pendingCode, holdersStats, result>>
  /\ UNCHANGED nonEngineVars

\* mutant: the error is logged and the scan goes on without a height
GetBlockNumberFailContinues ==
  /\ pc = "getBlockNumber"
  /\ thrown' = thrown \cup {"getBlockNumber"}
  /\ endBlock' = -1
  /\ fromBlock' = startBlock
  /\ pc' = "loop"
  /\ UNCHANGED <<infuraKey, decimals, startBlock, batchSize, chainHeight,
                 totalSupply, toBlock, holders, reqLog, topHolders,
                 pendingCode, holdersStats, result>>
  /\ UNCHANGED nonEngineVars

GetBlockNumberFail ==
  /\ pc = "getBlockNumber"
  /\ FetchHoldersNull("getBlockNumber")
  /\ UNCHANGED <<infuraKey, decimals, startBlock, batchSize, chainHeight,
                 totalSupply, endBlock, fromBlock, toBlock, holders,
                 reqLog, topHolders,
                 pendingCode>>
  /\ UNCHANGED nonEngineVars

\* mutant: the window runs one block into the next one
WindowEndOverlap(from, size, last) == Min(from + size, last)

\* const toBlock = Math.min(fromBlock + batchSize - 1, endBlock)
WindowEnd(from, size, last) == Min(from + size - 1, last)

\* mutant: the loop follows the chain's height as it grows
LoopContinuesLive == fromBlock <= chainHeight

\* the loop condition: fromBlock <= endBlock
LoopContinues == fromBlock <= endBlock

\* mutant: the request for the following window is sent along with this one
QueryFilterCallAhead ==
  /\ pc = "loop"
  /\ LoopContinues
  /\ toBlock' = WindowEnd(fromBlock, batchSize, endBlock)
  /\ reqLog' = reqLog \o << Req("queryFilter", fromBlock, toBlock', ""),
                            Req("queryFilter", fromBlock + batchSize,
                                WindowEnd(fromBlock + batchSize, batchSize, endBlock), "") >>
  /\ pc' = "queryFilter"
  /\ UNCHANGED <<infuraKey, decimals, startBlock, batchSize, chainHeight,
                 totalSupply, endBlock, fromBlock, holders, thrown,
                 topHolders, pendingCode, holdersStats, result>>
  /\ UNCHANGED nonEngineVars

\* loop head with a window left: queryFilter is called for it
QueryFilterCall ==
  /\ pc = "loop"
  /\ LoopContinues
  /\ toBlock' = WindowEnd(fromBlock, batchSize, endBlock)
  /\ reqLog' = Append(reqLog, Req("queryFilter", fromBlock, toBlock', ""))
  /\ pc' = "queryFilter"
  /\ UNCHANGED <<infuraKey, decimals, startBlock, batchSize, chainHeight,
                 totalSupply, endBlock, fromBlock, holders, thrown,
                 topHolders, pendingCode, holdersStats, result>>
  /\ UNCHANGED nonEngineVars

\* the window's events arrive and are replayed into the ledger
QueryFilterOk ==
  /\ pc = "queryFilter"
  /\ \E events \in WindowResponses :
       holders' = Replay(holders, events, decimals)
  /\ fromBlock' = fromBlock + batchSize
  /\ pc' = "loop"
  /\ UNCHANGED <<infuraKey, decimals, startBlock, batchSize, chainHeight,
                 totalSupply, endBlock, toBlock, thrown, reqLog,
                 topHolders, pendingCode, holdersStats, result>>
  /\ UNCHANGED nonEngineVars

\* mutant: a failed window is asked for again
QueryFilterFailRetry ==
  /\ pc = "queryFilter"
  /\ thrown' = thrown \cup {"queryFilter"}
  /\ pc' = "loop"
  /\ UNCHANGED <<infuraKey, decimals, startBlock, batchSize, chainHeight,
                 totalSupply, endBlock, fromBlock, toBlock, holders, reqLog,
                 topHolders, pendingCode, holdersStats, result>>
  /\ UNCHANGED nonEngineVars

\* the log request throws: catch, console.error, continue
QueryFilterFail ==
  /\ pc = "queryFilter"
  /\ thrown' = thrown \cup {"queryFilter"}
  /\ fromBlock' = fromBlock + batchSize
  /\ pc' = "loop"
  /\ UNCHANGED <<infuraKey, decimals, startBlock, batchSize, chainHeight,
                 totalSupply, endBlock, toBlock, holders, reqLog,
                 topHolders, pendingCode, holdersStats, result>>
  /\ UNCHANGED nonEngineVars

\* what axios.get(coingecko) can do: reject, or answer with a status and a
\* body that may carry market_data.market_cap.usd
MarketCapResponses ==
  { [rejects |-> TRUE, status |-> 0, hasUsd |-> FALSE, usd |-> 0],
    [rejects |-> FALSE, status |-> 204, hasUsd |-> FALSE, usd |-> 0],
    [rejects |-> FALSE, status |-> 200, hasUsd |-> FALSE, usd |-> 0],
    [rejects |-> FALSE, status |-> 200, hasUsd |-> TRUE, usd |-> 1000] }

\* fetchMarketCap: null on a rejection, on a status other than 200 and on a
\* body without the value
fetchMarketCap(response) ==
  IF response.rejects THEN NullCap
  ELSE IF response.status # 200 THEN NullCap
  ELSE IF response.hasUsd THEN response.usd ELSE NullCap

MarketCaps == { fetchMarketCap(response) : response \in MarketCapResponses }

\* loop left: filter, sort, and look up the code of the top holders, all at once
ClassifyStart ==
  /\ pc = "loop"
  /\ ~LoopContinues
  /\ LET top == Slice(FilteredHolders(holders), 0, TopN)
     IN /\ topHolders' = [i \in 1..Len(top) |->
                            [address |-> top[i].holder, balance |-> top[i].balance,
                             type |-> "pending"]]
        /\ pendingCode' = 1..Len(top)
        /\ reqLog' = reqLog \o [i \in 1..Len(top) |-> Req("getCode", 0, 0, top[i].holder)]
  /\ pc' = "getCode"
  /\ UNCHANGED <<infuraKey, decimals, startBlock, batchSize, chainHeight,
                 totalSupply, endBlock, fromBlock, toBlock, holders,
                 thrown, holdersStats, result>>
  /\ UNCHANGED nonEngineVars

\* mutant: the code that came back is not looked at
CodeTypeWallet(address) == "wallet"

\* const type = code !== '0x' ? 'contract' : 'wallet'
CodeType(address) == IF address \in ContractAddrs THEN "contract" ELSE "wallet"

GetCodeOk ==
  /\ pc = "getCode"
  /\ \E i \in pendingCode :
       /\ topHolders' = [topHolders EXCEPT ![i].type = CodeType(topHolders[i].address)]
       /\ pendingCode' = pendingCode \ {i}
  /\ UNCHANGED <<pc, infuraKey, decimals, startBlock, batchSize, chainHeight,
                 totalSupply, endBlock, fromBlock, toBlock, holders,
                 thrown, reqLog, holdersStats, result>>
  /\ UNCHANGED nonEngineVars

GetCodeFail ==
  /\ pc = "getCode"
  /\ \E i \in pendingCode :
       /\ topHolders' = [topHolders EXCEPT ![i].type = "unknown"]
       /\ pendingCode' = pendingCode \ {i}
  /\ thrown' = thrown \cup {"getCode"}
  /\ UNCHANGED <<pc, infuraKey, decimals, startBlock, batchSize, chainHeight,
                 totalSupply, endBlock, fromBlock, toBlock, holders,
                 reqLog, holdersStats, result>>
  /\ UNCHANGED nonEngineVars

\* (totalTopHoldersBalance / totalSupply) * 100, toFixed(2): hundredths of a percent
TopHoldersProportion(top, supply) ==
  IF supply > 0 THEN ToFixed2(SumBalances(top) * 100, Scale * supply) ELSE 0

\* mutant: an empty holder list is reported as a failure
EmptyHoldersStatsNull(supply) == Null

\* if (filteredHolders.length === 0) return { ... }
EmptyHoldersStats(supply) ==
  [ok |-> TRUE, totalSupply |-> supply, topHoldersProportion |-> 0,
   topHolders |-> << >>, filteredHolders |-> << >>]

\* what fetchHolders returns once every lookup has settled
HoldersStatsOf(m, top, supply) ==
  LET filtered == FilteredHolders(m)
      balances == [i \in 1..Len(top) |-> [holder |-> top[i].address, balance |-> top[i].balance]]
  IN IF Len(filtered) = 0
     THEN EmptyHoldersStats(supply)
     ELSE [ok |-> TRUE, totalSupply |-> supply,
           topHoldersProportion |-> TopHoldersProportion(balances, supply),
           topHolders |-> top, filteredHolders |-> filtered]

\* mutant: the first lookup to settle resolves the whole batch
AnySettled == pendingCode = {} \/ Cardinality(pendingCode) < Len(topHolders)

\* await Promise.all(...): every lookup has settled
AllSettled == pendingCode = {}

\* Promise.all resolved: fetchHolders returns; getTokenStats asks for the market cap
FetchHoldersReturn ==
  /\ pc = "getCode"
  /\ AllSettled
  /\ holdersStats' = HoldersStatsOf(holders, topHolders, totalSupply)
  /\ IF holdersStats'.ok
     THEN /\ pc' = "marketCap"
          /\ reqLog' = Append(reqLog, Req("marketCap", 0, 0, ""))
          /\ result' = result
     ELSE /\ pc' = "failed"
          /\ reqLog' = reqLog
          /\ result' = Null
  /\ UNCHANGED <<infuraKey, decimals, startBlock, batchSize, chainHeight,
                 totalSupply, endBlock, fromBlock, toBlock, holders,
                 thrown, topHolders, pendingCode>>
  /\ UNCHANGED nonEngineVars

\* mutant: a null market cap makes getTokenStats return null
TokenStatsReturnStrict ==
  /\ pc = "marketCap"
  /\ \E response \in MarketCapResponses :
     LET marketCap == fetchMarketCap(response) IN
       result' = IF marketCap = NullCap THEN Null ELSE
                 [ok |-> TRUE,
                  tokenStats |-> [totalSupply |-> holdersStats.totalSupply,
                                  marketCap |-> marketCap,
                                  topHoldersProportion |-> holdersStats.topHoldersProportion,
                                  topHolders |-> holdersStats.topHolders],
                  stats |-> calculateStats(holdersStats.filteredHolders)]
  /\ pc' = IF result'.ok THEN "done" ELSE "failed"
  /\ UNCHANGED <<infuraKey, decimals, startBlock, batchSize, chainHeight,
                 totalSupply, endBlock, fromBlock, toBlock, holders,
                 thrown, reqLog, topHolders, pendingCode, holdersStats>>
  /\ UNCHANGED nonEngineVars

\* fetchMarketCap settled (null on any error); calculateStats; the report
TokenStatsReturn ==
  /\ pc = "marketCap"
  /\ \E response \in MarketCapResponses :
     LET marketCap == fetchMarketCap(response) IN
       result' = [ok |-> TRUE,
                  tokenStats |-> [totalSupply |-> holdersStats.totalSupply,
                                  marketCap |-> marketCap,
                                  topHoldersProportion |-> holdersStats.topHoldersProportion,
                                  topHolders |-> holdersStats.topHolders],
                  stats |-> calculateStats(holdersStats.filteredHolders)]
  /\ pc' = "done"
  /\ UNCHANGED <<infuraKey, decimals, startBlock, batchSize, chainHeight,
                 totalSupply, endBlock, fromBlock, toBlock, holders,
                 thrown, reqLog, topHolders, pendingCode, holdersStats>>
  /\ UNCHANGED nonEngineVars

EngineNext ==
  \/ MineBlock
  \/ StartOk
  \/ StartFail
  \/ TotalSupplyOk
  \/ TotalSupplyFail
  \/ GetBlockNumberOk
  \/ GetBlockNumberFail
  \/ QueryFilterCall
  \/ QueryFilterOk
  \/ QueryFilterFail
  \/ ClassifyStart
  \/ GetCodeOk
  \/ GetCodeFail
  \/ FetchHoldersReturn
  \/ TokenStatsReturn

Init == EngineInit
Next == EngineNext
Spec == Init /\ [][Next]_vars

\* the steps of the call itself; each one waits for at most one request, and
\* a request is answered or fails in the end
EngineSteps ==
  \/ StartOk
  \/ StartFail
  \/ TotalSupplyOk
  \/ TotalSupplyFail
  \/ GetBlockNumberOk
  \/ GetBlockNumberFail
  \/ QueryFilterCall
  \/ QueryFilterOk
  \/ QueryFilterFail
  \/ ClassifyStart
  \/ GetCodeOk
  \/ GetCodeFail
  \/ FetchHoldersReturn
  \/ TokenStatsReturn

SpecLive == Init /\ [][Next]_vars /\ WF_vars(EngineSteps)

\* ------------------------------------------- the replay loop on its own
ReplayInit ==
  /\ pc = "idle"
  /\ infuraKey = TRUE
  /\ decimals \in {0, MaxDecimals}
  /\ startBlock = 0
  /\ batchSize = 1
  /\ chainHeight = 0
  /\ totalSupply = 0
  /\ endBlock = 0
  /\ fromBlock = 0
  /\ toBlock = 0
  /\ holders = EmptyMap
  /\ thrown = {}
  /\ reqLog = << >>
  /\ topHolders = << >>
  /\ pendingCode = {}
  /\ holdersStats = Null
  /\ result = Null
  /\ replayed = << >>
  /\ chain = << >>
  /\ RoutesIdle
  /\ RetryIdle
  /\ ScansIdle
  /\ ReturnsIdle
  /\ ChartIdle

\* one more event of the window is processed (lines 154-183)
ReplayEvent ==
  /\ pc = "idle"
  /\ Len(replayed) < MaxReplay
  /\ \E e \in EventPool :
       /\ holders' = ApplyEvent(holders, e, decimals)
       /\ replayed' = Append(replayed, e)
  /\ UNCHANGED <<pc, infuraKey, decimals, startBlock, batchSize, chainHeight,
                 totalSupply, endBlock, fromBlock, toBlock, thrown, reqLog,
                 topHolders, pendingCode, holdersStats, result, chain, routeVars, retryVars, scans, returns, chart>>

SpecReplay == ReplayInit /\ [][ReplayEvent]_vars

\* the replay loop with the ledger's balances as numbers
ReplayEvent64 ==
  /\ pc = "idle"
  /\ Len(replayed) < MaxReplay64
  /\ \E e \in EventPool :
       /\ holders' = ApplyEvent64(holders, e, decimals)
       /\ replayed' = Append(replayed, e)
  /\ UNCHANGED <<pc, infuraKey, decimals, startBlock, batchSize, chainHeight,
                 totalSupply, endBlock, fromBlock, toBlock, thrown, reqLog,
                 topHolders, pendingCode, holdersStats, result, chain, routeVars, retryVars, scans, returns, chart>>

SpecReplay64 == ReplayInit /\ [][ReplayEvent64]_vars

\* ------------------------------------------- the window loop on its own
Blocks == 0..MaxBlock
Logged(b, e) == [block |-> b, event |-> e]
Ascending(c) == \A i \in 1..(Len(c) - 1) : c[i].block <= c[i + 1].block
Chains == { c \in SeqsUpTo({ Logged(b, e) : b \in Blocks, e \in ScanPool }, MaxChainEvents) :
              Ascending(c) }

RECURSIVE EventsOf(_)
EventsOf(c) == IF c = << >> THEN << >> ELSE <<Head(c).event>> \o EventsOf(Tail(c))

\* queryFilter(filter, from, to): the logs of the blocks from..to, in order
QueryFilter(c, from, to) ==
  LET InWindow(l) == from <= l.block /\ l.block <= to
  IN EventsOf(SelectSeq(c, InWindow))

\* the for loop of fetchHolders when no request throws
RECURSIVE ScanLoop(_, _, _, _, _, _)
ScanLoop(m, c, from, last, size, d) ==
  IF from <= last
  THEN ScanLoop(Replay(m, QueryFilter(c, from, WindowEnd(from, size, last)), d),
                c, from + size, last, size, d)
  ELSE m

BatchInit ==
  /\ pc = "idle"
  /\ infuraKey = TRUE
  /\ decimals \in {0, MaxDecimals}
  /\ startBlock \in Blocks
  /\ batchSize = 1
  /\ chainHeight \in Blocks
  /\ totalSupply = 0
  /\ endBlock = chainHeight
  /\ fromBlock = startBlock
  /\ toBlock = 0
  /\ holders = EmptyMap
  /\ thrown = {}
  /\ reqLog = << >>
  /\ topHolders = << >>
  /\ pendingCode = {}
  /\ holdersStats = Null
  /\ result = Null
  /\ replayed = << >>
  /\ chain \in Chains
  /\ RoutesIdle
  /\ RetryIdle
  /\ ScansIdle
  /\ ReturnsIdle
  /\ ChartIdle

\* the whole range is scanned with some window size
BatchScan ==
  /\ pc = "idle"
  /\ \E size \in 1..(MaxBlock + 1) :
       /\ batchSize' = size
       /\ holders' = ScanLoop(EmptyMap, chain, startBlock, endBlock, size, decimals)
  /\ pc' = "scanned"
  /\ UNCHANGED <<infuraKey, decimals, startBlock, chainHeight, totalSupply,
                 endBlock, fromBlock, toBlock, thrown, reqLog, topHolders,
                 pendingCode, holdersStats, result, replayed, chain, routeVars, retryVars, scans, returns, chart>>

SpecBatch == BatchInit /\ [][BatchScan]_vars

\* --------------------------------------------- POST /token/refresh/:token
HolderCounts == {7}          \* stats.totalWallets of a finished scan

\* const timeDifference = (date - lastUpdated) / 1000 / 60; timeDifference < 15
TooSoon(date, lastUpdated) == date - lastUpdated < RecomputeMinutes

NextId == CHOOSE id \in 1..MaxRequests :
            reqs[id].kind = "none" /\ \A j \in 1..(id - 1) : reqs[j].kind # "none"
HasFreeId == \E id \in 1..MaxRequests : reqs[id].kind = "none"
InJob(r) == r.pc \in {"job", "release"}
JobsOf(kind) == { id \in 1..MaxRequests : reqs[id].kind = kind /\ InJob(reqs[id]) }
Answer(r, code) == [r EXCEPT !.pc = "done", !.status = code, !.target = "", !.date = 0,
                              !.tokenEntry = NoToken, !.treasuryEntry = NoTreasury]

Tick ==
  /\ clock < MaxClock
  /\ clock' = clock + TickMinutes
  /\ UNCHANGED <<isRunningToken, isRunningTreasury, tokenDb, treasuryDb, reqs, daily>>
  /\ UNCHANGED <<engineVars, replayed, chain, retryVars, scans, returns, chart>>

\* the request arrives: 429 when the flag is set, else findOne is awaited
TokenRequest ==
  /\ HasFreeId
  /\ \E t \in Range(Tokens) :
       LET r == [NoReq EXCEPT !.kind = "token", !.target = t, !.date = clock,
                              !.jobAtArrival = JobsOf("token") # {},
                              !.recentAtDate = tokenDb[t].exists
                                               /\ TooSoon(clock, tokenDb[t].last_updated)]
       IN reqs' = [reqs EXCEPT ![NextId] =
                     IF isRunningToken THEN Answer(r, 429) ELSE [r EXCEPT !.pc = "findOne"]]
  /\ UNCHANGED <<clock, isRunningToken, isRunningTreasury, tokenDb, treasuryDb, daily>>
  /\ UNCHANGED <<engineVars, replayed, chain, retryVars, scans, returns, chart>>

\* findOne resolved: 400 inside the 15 minutes, else the notification is awaited
TokenFindOne ==
  /\ \E id \in 1..MaxRequests :
       /\ reqs[id].kind = "token" /\ reqs[id].pc = "findOne"
       /\ LET entry == tokenDb[reqs[id].target]
          IN reqs' = [reqs EXCEPT ![id] =
                        IF entry.exists /\ TooSoon(reqs[id].date, entry.last_updated)
                        THEN Answer(reqs[id], 400)
                        ELSE [reqs[id] EXCEPT !.pc = "notify", !.tokenEntry = entry]]
  /\ UNCHANGED <<clock, isRunningToken, isRunningTreasury, tokenDb, treasuryDb, daily>>
  /\ UNCHANGED <<engineVars, replayed, chain, retryVars, scans, returns, chart>>

\* findOne rejected: catch, isRunning = false, 500
TokenFindOneThrows ==
  /\ \E id \in 1..MaxRequests :
       /\ reqs[id].kind = "token" /\ reqs[id].pc = "findOne"
       /\ reqs' = [reqs EXCEPT ![id] = Answer(reqs[id], 500)]
  /\ isRunningToken' = FALSE
  /\ UNCHANGED <<clock, isRunningTreasury, tokenDb, treasuryDb, daily>>
  /\ UNCHANGED <<engineVars, replayed, chain, retryVars, scans, returns, chart>>

\* 202, isRunning = true, setImmediate: getTokenStats runs in the background
TokenJobStart ==
  /\ \E id \in 1..MaxRequests :
       /\ reqs[id].kind = "token" /\ reqs[id].pc = "notify"
       /\ reqs' = [reqs EXCEPT ![id].pc = "job", ![id].status = 202]
  /\ isRunningToken' = TRUE
  /\ UNCHANGED <<clock, isRunningTreasury, tokenDb, treasuryDb, daily>>
  /\ UNCHANGED <<engineVars, replayed, chain, retryVars, scans, returns, chart>>

\* getTokenStats returned null, or the write threw: nothing is stored
TokenJobFails ==
  /\ \E id \in 1..MaxRequests :
       /\ reqs[id].kind = "token" /\ reqs[id].pc = "job"
       /\ reqs' = [reqs EXCEPT ![id].pc = "release", ![id].scanResult = "null"]
  /\ UNCHANGED <<clock, isRunningToken, isRunningTreasury, tokenDb, treasuryDb, daily>>
  /\ UNCHANGED <<engineVars, replayed, chain, retryVars, scans, returns, chart>>

MinutesPerDay == 1440

\* currentDate = new Date(); currentDate.setHours(0, 0, 0, 0); currentDate.getTime()
DayOf(minutes) == minutes - (minutes % MinutesPerDay)

\* [currentTimestamp, currentHolderCount]
Point(count) == <<DayOf(clock), count>>

\* the document the manual job writes: a new one, or the $set on the one it read
TokenJobDocument(r, count) ==
  IF r.tokenEntry.exists
  THEN [exists |-> TRUE, last_updated |-> r.date, total_holders |-> count,
        holders_graph |-> r.tokenEntry.holders_graph]
  ELSE [exists |-> TRUE, last_updated |-> r.date, total_holders |-> count,
        holders_graph |-> <<Point(count)>>]

\* getTokenStats returned a report: save() or updateOne()
TokenJobStore ==
  /\ \E id \in 1..MaxRequests, count \in HolderCounts :
       /\ reqs[id].kind = "token" /\ reqs[id].pc = "job"
       \* save() of a second document for the address fails on the unique index
       /\ reqs[id].tokenEntry.exists \/ ~tokenDb[reqs[id].target].exists
       /\ tokenDb' = [tokenDb EXCEPT ![reqs[id].target] = TokenJobDocument(reqs[id], count)]
       /\ reqs' = [reqs EXCEPT ![id].pc = "release", ![id].scanResult = "report"]
  /\ UNCHANGED <<clock, isRunningToken, isRunningTreasury, treasuryDb, daily>>
  /\ UNCHANGED <<engineVars, replayed, chain, retryVars, scans, returns, chart>>

\* mutant: the job ends without the finally block
TokenJobReleaseKeeps ==
  /\ \E id \in 1..MaxRequests :
       /\ reqs[id].kind = "token" /\ reqs[id].pc = "release"
       /\ reqs' = [reqs EXCEPT ![id].pc = "done", ![id].target = "", ![id].date = 0,
                                 ![id].tokenEntry = NoToken]
  /\ UNCHANGED <<clock, isRunningToken, isRunningTreasury, tokenDb, treasuryDb, daily>>
  /\ UNCHANGED <<engineVars, replayed, chain, retryVars, scans, returns, chart>>

\* finally { isRunning = false }
TokenJobRelease ==
  /\ \E id \in 1..MaxRequests :
       /\ reqs[id].kind = "token" /\ reqs[id].pc = "release"
       /\ reqs' = [reqs EXCEPT ![id].pc = "done", ![id].target = "", ![id].date = 0,
                                 ![id].tokenEntry = NoToken]
  /\ isRunningToken' = FALSE
  /\ UNCHANGED <<clock, isRunningTreasury, tokenDb, treasuryDb, daily>>
  /\ UNCHANGED <<engineVars, replayed, chain, retryVars, scans, returns, chart>>

\* ---------------------------------------------- POST /treasury/refresh/:dao
TreasuryRequest ==
  /\ HasFreeId
  /\ \E d \in Range(Daos) :
       LET r == [NoReq EXCEPT !.kind = "treasury", !.target = d,
                              !.jobAtArrival = JobsOf("treasury") # {}]
       IN reqs' = [reqs EXCEPT ![NextId] =
                     IF isRunningTreasury THEN Answer(r, 429) ELSE [r EXCEPT !.pc = "findOne"]]
  /\ UNCHANGED <<clock, isRunningToken, isRunningTreasury, tokenDb, treasuryDb, daily>>
  /\ UNCHANGED <<engineVars, replayed, chain, retryVars, scans, returns, chart>>

\* findOne resolved; const date = new Date(); 400 inside the 15 minutes
TreasuryFindOne ==
  /\ \E id \in 1..MaxRequests :
       /\ reqs[id].kind = "treasury" /\ reqs[id].pc = "findOne"
       /\ LET entry == treasuryDb[reqs[id].target]
              recent == entry.exists /\ TooSoon(clock, entry.last_updated)
          IN reqs' = [reqs EXCEPT ![id] =
                        IF recent
                        THEN Answer([reqs[id] EXCEPT !.recentAtDate = recent], 400)
                        ELSE [reqs[id] EXCEPT !.pc = "notify", !.date = clock,
                                              !.recentAtDate = recent,
                                              !.treasuryEntry = entry]]
  /\ UNCHANGED <<clock, isRunningToken, isRunningTreasury, tokenDb, treasuryDb, daily>>
  /\ UNCHANGED <<engineVars, replayed, chain, retryVars, scans, returns, chart>>

TreasuryFindOneThrows ==
  /\ \E id \in 1..MaxRequests :
       /\ reqs[id].kind = "treasury" /\ reqs[id].pc = "findOne"
       /\ reqs' = [reqs EXCEPT ![id] = Answer(reqs[id], 500)]
  /\ isRunningTreasury' = FALSE
  /\ UNCHANGED <<clock, isRunningToken, tokenDb, treasuryDb, daily>>
  /\ UNCHANGED <<engineVars, replayed, chain, retryVars, scans, returns, chart>>

TreasuryJobStart ==
  /\ \E id \in 1..MaxRequests :
       /\ reqs[id].kind = "treasury" /\ reqs[id].pc = "notify"
       /\ reqs' = [reqs EXCEPT ![id].pc = "job", ![id].status = 202]
  /\ isRunningTreasury' = TRUE
  /\ UNCHANGED <<clock, isRunningToken, tokenDb, treasuryDb, daily>>
  /\ UNCHANGED <<engineVars, replayed, chain, retryVars, scans, returns, chart>>

\* a fetch rejected, or the write threw: nothing is stored
TreasuryJobFails ==
  /\ \E id \in 1..MaxRequests :
       /\ reqs[id].kind = "treasury" /\ reqs[id].pc = "job"
       /\ reqs' = [reqs EXCEPT ![id].pc = "release"]
  /\ UNCHANGED <<clock, isRunningToken, isRunningTreasury, tokenDb, treasuryDb, daily>>
  /\ UNCHANGED <<engineVars, replayed, chain, retryVars, scans, returns, chart>>

\* ------------------------------------------------- getTreasuryHoldings
\* an optional value: << >> for null or undefined, <<v>> for v
UsdPrices == {<< >>, <<5>>}

\* the answer to eth_getBalance: the request fails, or result is absent, or a balance
EthResponses ==
  {[ok |-> FALSE, result |-> << >>], [ok |-> TRUE, result |-> << >>],
   [ok |-> TRUE, result |-> <<0>>], [ok |-> TRUE, result |-> <<1>>]}

\* one entry of alchemy_getTokenBalances with what its later lookups give
TokenBalance(valid, metadataOk, balance, price) ==
  [valid |-> valid, metadataOk |-> metadataOk, balance |-> balance, price |-> price]
TokenBalances ==
  {TokenBalance(FALSE, TRUE, 1, <<5>>), TokenBalance(TRUE, FALSE, 1, <<5>>),
   TokenBalance(TRUE, TRUE, 0, <<5>>), TokenBalance(TRUE, TRUE, 1, << >>),
   TokenBalance(TRUE, TRUE, 1, <<5>>)}

\* the answer to alchemy_getTokenBalances: fetchWithRetry throws, or a list
TokenResponses ==
  {[ok |-> FALSE, list |-> << >>], [ok |-> TRUE, list |-> << >>]}
    \cup { [ok |-> TRUE, list |-> <<t>>] : t \in TokenBalances }

TreasuryInputs ==
  [apiKey : BOOLEAN, ethResponse : EthResponses, ethPrice : UsdPrices,
   tokenResponse : TokenResponses]

\* return { usdBalance: '0.00', tokens: [] }
NeutralHoldings == [usdBalance |-> 0, tokens |-> << >>]

RECURSIVE TokenLoop(_, _)
\* for (const token of tokenBalances): a token is skipped when it is invalid,
\* has no metadata, a zero balance, no price or a value that rounds to 0
TokenLoop(list, acc) ==
  IF list = << >> THEN acc
  ELSE LET token == Head(list)
           skip == \/ ~token.valid
                   \/ ~token.metadataOk
                   \/ token.balance = 0
                   \/ token.price = << >>
                   \/ token.balance * token.price[1] = 0
       IN TokenLoop(Tail(list),
                    IF skip THEN acc
                    ELSE [usdBalance |-> acc.usdBalance + token.balance * token.price[1],
                          tokens |-> Append(acc.tokens, "token")])

getTreasuryHoldings(input) ==
  IF ~input.apiKey THEN NeutralHoldings
  ELSE IF ~input.ethResponse.ok \/ input.ethResponse.result = << >> THEN NeutralHoldings
  ELSE LET ethBalanceDecoded == input.ethResponse.result[1]
           ethTotalValue == IF input.ethPrice # << >>
                            THEN ethBalanceDecoded * input.ethPrice[1] ELSE 0
           withEth == IF ethBalanceDecoded > 0
                      THEN [usdBalance |-> ethTotalValue, tokens |-> <<"ETH">>]
                      ELSE NeutralHoldings
       IN IF ~input.tokenResponse.ok THEN NeutralHoldings
          ELSE TokenLoop(input.tokenResponse.list, withEth)

\* the missing key, the failed ETH-balance request, the failed token-balance request
FetchFailed(input) ==
  ~input.apiKey \/ ~input.ethResponse.ok \/ ~input.tokenResponse.ok

\* the calls of the refreshes: a treasury that holds ETH only, priced
RefreshInputs ==
  { input \in TreasuryInputs :
      input.ethPrice # << >> /\ input.tokenResponse.list = << >> }

\* what a call can return, and whether it met one of the failures
TreasuryOutcomes ==
  { [holdings |-> getTreasuryHoldings(input),
     from |-> IF FetchFailed(input) THEN "failed" ELSE "fetched"] : input \in RefreshInputs }

\* the document a treasury refresh writes from the entry it read
TreasuryDocument(entry, date, treasuryHoldings) ==
  [exists |-> TRUE, last_updated |-> date,
   total_treasury_value |-> treasuryHoldings.usdBalance,
   tokens |-> treasuryHoldings.tokens,
   historical_treasury |->
     (IF entry.exists THEN entry.historical_treasury ELSE << >>)
       \o << [date |-> date, balance |-> treasuryHoldings.usdBalance] >>]

TreasuryJobStore ==
  /\ \E id \in 1..MaxRequests, out \in TreasuryOutcomes :
       /\ reqs[id].kind = "treasury" /\ reqs[id].pc = "job"
       /\ reqs[id].treasuryEntry.exists \/ ~treasuryDb[reqs[id].target].exists
       /\ treasuryDb' = [treasuryDb EXCEPT ![reqs[id].target] =
                           TreasuryDocument(reqs[id].treasuryEntry, reqs[id].date,
                                            out.holdings)]
       /\ reqs' = [reqs EXCEPT ![id].pc = "release", ![id].stored = out.from]
  /\ UNCHANGED <<clock, isRunningToken, isRunningTreasury, tokenDb, daily>>
  /\ UNCHANGED <<engineVars, replayed, chain, retryVars, scans, returns, chart>>

TreasuryJobRelease ==
  /\ \E id \in 1..MaxRequests :
       /\ reqs[id].kind = "treasury" /\ reqs[id].pc = "release"
       /\ reqs' = [reqs EXCEPT ![id].pc = "done", ![id].target = "", ![id].date = 0,
                                 ![id].treasuryEntry = NoTreasury]
  /\ isRunningTreasury' = FALSE
  /\ UNCHANGED <<clock, isRunningToken, tokenDb, treasuryDb, daily>>
  /\ UNCHANGED <<engineVars, replayed, chain, retryVars, scans, returns, chart>>

\* ------------------------------------------------------------ dailyRefresh
RECURSIVE StoredTokens(_)
\* TokenModel.find(): the tokens that have a document
StoredTokens(q) ==
  IF q = << >> THEN << >>
  ELSE (IF tokenDb[Head(q)].exists THEN <<Head(q)>> ELSE << >>) \o StoredTokens(Tail(q))

\* cron.schedule(..., dailyRefresh) fires, or POST /refreshAll is accepted
DailyStart ==
  /\ daily.pc = "idle"
  /\ daily.passes < MaxPasses
  /\ daily' = [NoDaily EXCEPT !.pc = "tokensFind", !.passes = daily.passes + 1]
  /\ UNCHANGED <<clock, isRunningToken, isRunningTreasury, tokenDb, treasuryDb, reqs>>
  /\ UNCHANGED <<engineVars, replayed, chain, retryVars, scans, returns, chart>>

\* fetchAndUpdateTokenStats is over: fetchAndUpdateTreasuries starts, const date = new Date()
ToTreasuries(d) ==
  [d EXCEPT !.pc = "treasuryRead", !.list = Daos, !.i = 1, !.date = clock,
            !.tokenEntry = NoToken, !.treasuryEntry = NoTreasury]

\* the loop over the tokens moves on
NextToken(d) ==
  IF d.i < Len(d.list)
  THEN [d EXCEPT !.pc = "tokenRead", !.i = d.i + 1, !.tokenEntry = NoToken]
  ELSE ToTreasuries(d)

\* the loop over the DAOs moves on
NextDao(d) ==
  IF d.i < Len(d.list)
  THEN [d EXCEPT !.pc = "treasuryRead", !.i = d.i + 1, !.treasuryEntry = NoTreasury]
  ELSE [NoDaily EXCEPT !.passes = d.passes]

\* const tokens = await TokenModel.find()
DailyTokensFind ==
  /\ daily.pc = "tokensFind"
  /\ LET tokens == StoredTokens(Tokens)
     IN daily' = IF tokens = << >> THEN ToTreasuries(daily)
                 ELSE [daily EXCEPT !.pc = "tokenRead", !.list = tokens, !.i = 1]
  /\ UNCHANGED <<clock, isRunningToken, isRunningTreasury, tokenDb, treasuryDb, reqs>>
  /\ UNCHANGED <<engineVars, replayed, chain, retryVars, scans, returns, chart>>

\* mutant: the rejection leaves fetchAndUpdateTokenStats and ends dailyRefresh
DailyTokensThrowEscapes ==
  /\ daily.pc \in {"tokensFind", "tokenRead"}
  /\ daily' = [NoDaily EXCEPT !.passes = daily.passes]
  /\ UNCHANGED <<clock, isRunningToken, isRunningTreasury, tokenDb, treasuryDb, reqs>>
  /\ UNCHANGED <<engineVars, replayed, chain, retryVars, scans, returns, chart>>

\* find() or findOne() rejected: the outer catch ends the token refresh
DailyTokensThrow ==
  /\ daily.pc \in {"tokensFind", "tokenRead"}
  /\ daily' = ToTreasuries(daily)
  /\ UNCHANGED <<clock, isRunningToken, isRunningTreasury, tokenDb, treasuryDb, reqs>>
  /\ UNCHANGED <<engineVars, replayed, chain, retryVars, scans, returns, chart>>

\* const entry = await TokenModel.findOne(...); then a notification is awaited
DailyTokenRead ==
  /\ daily.pc = "tokenRead"
  /\ daily' = [daily EXCEPT !.pc = "tokenCheck", !.tokenEntry = tokenDb[daily.list[daily.i]]]
  /\ UNCHANGED <<clock, isRunningToken, isRunningTreasury, tokenDb, treasuryDb, reqs>>
  /\ UNCHANGED <<engineVars, replayed, chain, retryVars, scans, returns, chart>>

\* const date = new Date(); skip inside the 15 minutes, else getTokenStats is called
DailyTokenCheck ==
  /\ daily.pc = "tokenCheck"
  /\ daily' = IF ~daily.tokenEntry.exists \/ TooSoon(clock, daily.tokenEntry.last_updated)
              THEN NextToken(daily)
              ELSE [daily EXCEPT !.pc = "tokenScan", !.date = clock]
  /\ UNCHANGED <<clock, isRunningToken, isRunningTreasury, tokenDb, treasuryDb, reqs>>
  /\ UNCHANGED <<engineVars, replayed, chain, retryVars, scans, returns, chart>>

\* mutant: the failed scan still stamps the record with the date of the pass
DailyTokenFailsStamps ==
  /\ daily.pc = "tokenScan"
  /\ daily' = [NextToken(daily) EXCEPT !.scanResult = "null"]
  /\ tokenDb' = [tokenDb EXCEPT ![daily.list[daily.i]].last_updated = daily.date]
  /\ UNCHANGED <<clock, isRunningToken, isRunningTreasury, treasuryDb, reqs>>
  /\ UNCHANGED <<engineVars, replayed, chain, retryVars, scans, returns, chart>>

\* getTokenStats returned null, or updateOne threw: the inner catch, next token
DailyTokenFails ==
  /\ daily.pc = "tokenScan"
  /\ daily' = [NextToken(daily) EXCEPT !.scanResult = "null"]
  /\ UNCHANGED <<clock, isRunningToken, isRunningTreasury, tokenDb, treasuryDb, reqs>>
  /\ UNCHANGED <<engineVars, replayed, chain, retryVars, scans, returns, chart>>

\* the $set the daily refresh writes from the entry it read
DailyTokenDocument(entry, date, count) ==
  [exists |-> TRUE, last_updated |-> date, total_holders |-> count,
   holders_graph |-> Append(entry.holders_graph, Point(count))]

DailyTokenStore ==
  /\ daily.pc = "tokenScan"
  /\ \E count \in HolderCounts :
       tokenDb' = [tokenDb EXCEPT ![daily.list[daily.i]] =
                     DailyTokenDocument(daily.tokenEntry, daily.date, count)]
  /\ daily' = [NextToken(daily) EXCEPT !.scanResult = "report"]
  /\ UNCHANGED <<clock, isRunningToken, isRunningTreasury, treasuryDb, reqs>>
  /\ UNCHANGED <<engineVars, replayed, chain, retryVars, scans, returns, chart>>

\* const entry = await TreasuryModel.findOne(...); skip inside the 15 minutes
DailyTreasuryRead ==
  /\ daily.pc = "treasuryRead"
  /\ LET entry == treasuryDb[daily.list[daily.i]]
     IN daily' = IF entry.exists /\ TooSoon(daily.date, entry.last_updated)
                 THEN NextDao(daily)
                 ELSE [daily EXCEPT !.pc = "treasuryFetch", !.treasuryEntry = entry]
  /\ UNCHANGED <<clock, isRunningToken, isRunningTreasury, tokenDb, treasuryDb, reqs>>
  /\ UNCHANGED <<engineVars, replayed, chain, retryVars, scans, returns, chart>>

\* findOne rejected: the outer catch ends the treasury refresh
DailyTreasuryThrows ==
  /\ daily.pc = "treasuryRead"
  /\ daily' = [NoDaily EXCEPT !.passes = daily.passes]
  /\ UNCHANGED <<clock, isRunningToken, isRunningTreasury, tokenDb, treasuryDb, reqs>>
  /\ UNCHANGED <<engineVars, replayed, chain, retryVars, scans, returns, chart>>

\* save() or updateOne() threw: the inner catch, next DAO
DailyTreasuryFails ==
  /\ daily.pc = "treasuryFetch"
  /\ daily' = NextDao(daily)
  /\ UNCHANGED <<clock, isRunningToken, isRunningTreasury, tokenDb, treasuryDb, reqs>>
  /\ UNCHANGED <<engineVars, replayed, chain, retryVars, scans, returns, chart>>

\* mutant: the neutral value of a failed fetch is not stored
DailyTreasuryStoreSkipsFailed ==
  /\ daily.pc = "treasuryFetch"
  /\ daily.treasuryEntry.exists \/ ~treasuryDb[daily.list[daily.i]].exists
  /\ \E out \in TreasuryOutcomes :
       /\ treasuryDb' = IF out.from = "failed" THEN treasuryDb
                        ELSE [treasuryDb EXCEPT ![daily.list[daily.i]] =
                                TreasuryDocument(daily.treasuryEntry, daily.date,
                                                 out.holdings)]
       /\ daily' = [NextDao(daily) EXCEPT !.stored = out.from]
  /\ UNCHANGED <<clock, isRunningToken, isRunningTreasury, tokenDb, reqs>>
  /\ UNCHANGED <<engineVars, replayed, chain, retryVars, scans, returns, chart>>

\* both fetches settled (a failed one as the neutral value): save() or updateOne()
DailyTreasuryStore ==
  /\ daily.pc = "treasuryFetch"
  /\ daily.treasuryEntry.exists \/ ~treasuryDb[daily.list[daily.i]].exists
  /\ \E out \in TreasuryOutcomes :
       /\ treasuryDb' = [treasuryDb EXCEPT ![daily.list[daily.i]] =
                           TreasuryDocument(daily.treasuryEntry, daily.date, out.holdings)]
       /\ daily' = [NextDao(daily) EXCEPT !.stored = out.from]
  /\ UNCHANGED <<clock, isRunningToken, isRunningTreasury, tokenDb, reqs>>
  /\ UNCHANGED <<engineVars, replayed, chain, retryVars, scans, returns, chart>>

RefreshInit ==
  /\ pc = "idle"
  /\ infuraKey = TRUE
  /\ decimals = 0
  /\ startBlock = 0
  /\ batchSize = 1
  /\ chainHeight = 0
  /\ totalSupply = 0
  /\ endBlock = 0
  /\ fromBlock = 0
  /\ toBlock = 0
  /\ holders = EmptyMap
  /\ thrown = {}
  /\ reqLog = << >>
  /\ topHolders = << >>
  /\ pendingCode = {}
  /\ holdersStats = Null
  /\ result = Null
  /\ replayed = << >>
  /\ chain = << >>
  /\ RetryIdle
  /\ ScansIdle
  /\ ReturnsIdle
  /\ ChartIdle
  /\ clock = 0
  /\ isRunningToken = FALSE
  /\ isRunningTreasury = FALSE
  /\ tokenDb \in [Range(Tokens) -> {NoToken, OldToken}]
  /\ treasuryDb \in [Range(Daos) -> {NoTreasury, OldTreasury}]
  /\ reqs = [id \in 1..MaxRequests |-> NoReq]
  /\ daily = NoDaily

RefreshNext ==
  \/ Tick
  \/ TokenRequest
  \/ TokenFindOne
  \/ TokenFindOneThrows
  \/ TokenJobStart
  \/ TokenJobFails
  \/ TokenJobStore
  \/ TokenJobRelease
  \/ TreasuryRequest
  \/ TreasuryFindOne
  \/ TreasuryFindOneThrows
  \/ TreasuryJobStart
  \/ TreasuryJobFails
  \/ TreasuryJobStore
  \/ TreasuryJobRelease
  \/ DailyStart
  \/ DailyTokensFind
  \/ DailyTokensThrow
  \/ DailyTokenRead
  \/ DailyTokenCheck
  \/ DailyTokenFails
  \/ DailyTokenStore
  \/ DailyTreasuryRead
  \/ DailyTreasuryThrows
  \/ DailyTreasuryFails
  \/ DailyTreasuryStore

SpecRefresh == RefreshInit /\ [][RefreshNext]_vars

\* the continuations of dailyRefresh: every promise it awaits settles
DailySteps ==
  \/ DailyTokensFind
  \/ DailyTokensThrow
  \/ DailyTokenRead
  \/ DailyTokenCheck
  \/ DailyTokenFails
  \/ DailyTokenStore
  \/ DailyTreasuryRead
  \/ DailyTreasuryThrows
  \/ DailyTreasuryFails
  \/ DailyTreasuryStore

SpecRefreshLive == RefreshInit /\ [][RefreshNext]_vars /\ WF_vars(DailySteps)

\* the continuations of the background jobs: every promise a job awaits settles
JobSteps ==
  \/ TokenJobFails
  \/ TokenJobStore
  \/ TokenJobRelease
  \/ TreasuryJobFails
  \/ TreasuryJobStore
  \/ TreasuryJobRelease

SpecRefreshJobs == RefreshInit /\ [][RefreshNext]_vars /\ WF_vars(JobSteps)

\* ------------------------------------------------------------ properties
EarlyCalls == {"init", "totalSupply", "getBlockNumber"}
Ops(log) == { log[i].op : i \in 1..Len(log) }
IsWindow(r) == r.op = "queryFilter"
Windows == SelectSeq(reqLog, IsWindow)
LoopLeft == pc \in {"getCode", "marketCap", "done"}

\* C1: a scan in which the log request of some window failed does not return
\* a report: every report returned comes from a scan whose log requests all
\* succeeded.
NoPartialReport == (pc = "done" /\ result.ok) => "queryFilter" \notin thrown

\* C2: starting from an empty ledger, the balances of the ledger sum to zero
\* after every event replayed, whatever the events are (self-transfers,
\* mints from the zero address and skipped events included).
LedgerConservation64 == SumExact(holders) = F64Zero

\* the same with amounts as exact multiples of 1/Scale: this one holds, so
\* what breaks conservation is the rounding of the number arithmetic alone
LedgerConservation == SumBalances(holders) = 0

IsSelfTransfer(e) == ~Skipped(e) /\ e.from = e.to
IsMint(e) == ~Skipped(e) /\ e.from = "0x0" /\ e.to # "0x0"
LedgerConservationWitness ==
  /\ Len(replayed) = 3
  /\ IsMint(replayed[1])
  /\ IsSelfTransfer(replayed[2])
  /\ Skipped(replayed[3])
  /\ Len(holders) = 2

\* C3: with no failing request, scanning a block range with any two window
\* sizes gives the same final ledger.
BatchEquivalence ==
  pc = "scanned" =>
    \A size \in 1..(MaxBlock + 1) :
      ScanLoop(EmptyMap, chain, startBlock, endBlock, size, decimals) = holders

BatchEquivalenceWitness ==
  /\ pc = "scanned"
  /\ batchSize = 1
  /\ startBlock = 0
  /\ endBlock = MaxBlock
  /\ Len(chain) = 2
  /\ chain[1].block < chain[2].block
  /\ Len(holders) = 3

\* C4: the windows requested are ascending, contiguous and disjoint, start at
\* startBlock, stay within the endBlock read before the first window, span
\* batchSize blocks each except possibly the last, and once the loop is left
\* every block of [startBlock, endBlock] lies in exactly one of them.
WindowsPartition ==
  LET w == Windows
      Covering(b) == { i \in 1..Len(w) : w[i].from <= b /\ b <= w[i].to }
  IN /\ \A i \in 1..Len(w) : w[i].from <= w[i].to /\ w[i].to <= endBlock
     /\ Len(w) > 0 => w[1].from = startBlock
     /\ \A i \in 1..(Len(w) - 1) :
          /\ w[i + 1].from = w[i].to + 1
          /\ w[i].to - w[i].from + 1 = batchSize
     /\ \A i \in 1..Len(w) : w[i].to - w[i].from + 1 <= batchSize
     /\ \A b \in 0..MaxBlock : Cardinality(Covering(b)) <= 1
     /\ LoopLeft =>
          \A b \in 0..MaxBlock :
            Cardinality(Covering(b)) = IF startBlock <= b /\ b <= endBlock THEN 1 ELSE 0

WindowsPartitionWitness ==
  /\ LoopLeft
  /\ Len(Windows) >= 2
  /\ Windows[Len(Windows)].to - Windows[Len(Windows)].from + 1 < batchSize
  /\ chainHeight > endBlock
  /\ "queryFilter" \in thrown

\* C5: a run goes through Idle, FetchingSupply, ScanningLogs, Classifying,
\* Analyzing, Done in this order, never back and never skipping; no code
\* lookup is sent before the last window is processed; the analysis starts
\* only after every lookup has settled; Done and Failed are final, and after
\* Failed no request is sent.
Phase ==
  CASE pc = "idle" -> "Idle"
    [] pc = "totalSupply" -> "FetchingSupply"
    [] pc \in {"getBlockNumber", "loop", "queryFilter"} -> "ScanningLogs"
    [] pc = "getCode" -> "Classifying"
    [] pc = "marketCap" -> "Analyzing"
    [] pc = "done" -> "Done"
    [] pc = "failed" -> "Failed"
    [] OTHER -> "None"
Rank(p) ==
  CASE p = "Idle" -> 0
    [] p = "FetchingSupply" -> 1
    [] p = "ScanningLogs" -> 2
    [] p = "Classifying" -> 3
    [] p = "Analyzing" -> 4
    [] p = "Done" -> 5
    [] OTHER -> 6
PhaseStep ==
  /\ Phase \in {"Done", "Failed"} => (pc' = pc /\ reqLog' = reqLog /\ result' = result)
  /\ Phase' # Phase =>
       \/ Rank(Phase') = Rank(Phase) + 1
       \/ Phase' = "Failed"
PhaseState ==
  /\ "getCode" \in Ops(reqLog) => fromBlock > endBlock /\ pc \notin {"loop", "queryFilter"}
  /\ pc # "getCode" => pendingCode = {}
  /\ pc \in {"marketCap", "done"} =>
       /\ \A i \in 1..Len(topHolders) : topHolders[i].type # "pending"
       /\ holdersStats.ok
  /\ "marketCap" \in Ops(reqLog) => pc \in {"marketCap", "done"}
PhaseOrder == [](PhaseState) /\ [][PhaseStep]_vars

PhaseOrderWitness ==
  /\ pc = "done"
  /\ Len(Windows) >= 2
  /\ Len(topHolders) = 2
  /\ "getCode" \in thrown

\* C6: when the provider cannot be set up, or totalSupply() or the block
\* height cannot be read, the engine returns null and has sent no log
\* request, no code lookup and no market-cap request.
EarlyFailure ==
  /\ thrown \cap EarlyCalls # {} =>
       /\ pc = "failed"
       /\ holdersStats = Null
       /\ result = Null
       /\ Ops(reqLog) \cap {"queryFilter", "getCode", "marketCap"} = {}
  /\ ~infuraKey => reqLog = << >> /\ pc \in {"idle", "failed"}

EarlyFailureWitness ==
  /\ "getBlockNumber" \in thrown
  /\ startBlock <= chainHeight
  /\ Len(reqLog) = 2

\* C7: a scan that completes with no balance above the dust threshold
\* returns a report, not a failure, and the report is all zero.
EmptyReport ==
  (/\ pc \in {"done", "failed"}
   /\ thrown \cap EarlyCalls = {}
   /\ FilteredHolders(holders) = << >>)
  => /\ pc = "done"
     /\ result.ok
     /\ result.stats.totalWallets = 0
     /\ result.tokenStats.topHolders = << >>
     /\ result.tokenStats.topHoldersProportion = 0
     /\ result.stats.averageBalance = 0
     /\ result.stats.medianBalance = 0
     /\ Len(result.stats.groupStats) = Len(walletGroups)
     /\ \A i \in 1..Len(result.stats.groupStats) :
          /\ result.stats.groupStats[i].walletsCount = 0
          /\ result.stats.groupStats[i].walletsHoldingPercentage = ZeroFrac

EmptyReportWitness ==
  /\ pc = "done"
  /\ Len(holders) = 3
  /\ FilteredHolders(holders) = << >>
  /\ thrown = {}

\* C8: single-flight guard on the manual refresh routes.  At most one job
\* started by POST /token/refresh is in flight at any time, and likewise for
\* POST /treasury/refresh; a request that arrived while a job of its route was
\* in flight has been answered 429 and has started no job.
SingleFlight ==
  /\ Cardinality(JobsOf("token")) <= 1
  /\ Cardinality(JobsOf("treasury")) <= 1
  /\ \A id \in 1..MaxRequests :
       reqs[id].jobAtArrival => reqs[id].pc = "done" /\ reqs[id].status = 429

\* the target the daily refresh is working on
DailyTarget == IF daily.i \in 1..Len(daily.list) THEN daily.list[daily.i] ELSE ""

\* C9: no two refreshes of the same target overlap across entry points.  No
\* token has a manual job in flight while the daily refresh is scanning it, and
\* no DAO has a manual job in flight while the daily refresh is fetching it.
NoOverlap ==
  \A id \in 1..MaxRequests :
    InJob(reqs[id]) =>
      /\ ~(reqs[id].kind = "token" /\ daily.pc = "tokenScan"
             /\ reqs[id].target = DailyTarget)
      /\ ~(reqs[id].kind = "treasury" /\ daily.pc = "treasuryFetch"
             /\ reqs[id].target = DailyTarget)

\* a manual request whose target's stored record was younger than 15 minutes
\* when the handler took its date starts no job; it is answered 400 (429 when the guard of C8 rejects it
\* first, 500 when the lookup itself fails)
ManualKeepsInterval ==
  \A id \in 1..MaxRequests :
    reqs[id].recentAtDate =>
      /\ reqs[id].pc \notin {"notify", "job", "release"}
      /\ reqs[id].status \in {0, 400, 429, 500}

\* the daily refresh decides on a target whose stored record is younger than
\* 15 minutes: it starts no scan, writes nothing and moves on
DailyKeepsInterval ==
  /\ (daily.pc = "tokenCheck" /\ tokenDb[DailyTarget].exists
        /\ TooSoon(clock, tokenDb[DailyTarget].last_updated)
        /\ daily' # daily)
       => daily'.pc # "tokenScan" /\ tokenDb' = tokenDb
  /\ (daily.pc = "treasuryRead" /\ treasuryDb[DailyTarget].exists
        /\ TooSoon(clock, treasuryDb[DailyTarget].last_updated)
        /\ daily' # daily)
       => daily'.pc # "treasuryFetch" /\ treasuryDb' = treasuryDb

\* C10: minimum recompute interval.  A manual refresh request or a daily pass
\* for a target whose stored last_updated is less than 15 minutes before the
\* request time starts no scan and leaves the stored record unchanged; the
\* manual route answers 400 and the daily refresh skips to the next target.
MinimumInterval == [](ManualKeepsInterval) /\ [][DailyKeepsInterval]_vars

\* the filtered, sorted holders the lookups are started for
LookedUp == Slice(FilteredHolders(holders), 0, TopN)

\* the kind a lookup that succeeded gives an address
KindOf(address) == IF address \in ContractAddrs THEN "contract" ELSE "wallet"

\* once the engine is past the lookups none is pending, and topHolders has one
\* record per looked-up address, in the same order, with the kind its lookup gave
ClassifiedAll ==
  pc \in {"marketCap", "done"} =>
    /\ pendingCode = {}
    /\ Len(topHolders) = Len(LookedUp)
    /\ \A i \in 1..Len(topHolders) :
         /\ topHolders[i].address = LookedUp[i].holder
         /\ topHolders[i].balance = LookedUp[i].balance
         /\ topHolders[i].type \in {"unknown", KindOf(topHolders[i].address)}
    /\ ("getCode" \notin thrown =>
          \A i \in 1..Len(topHolders) : topHolders[i].type # "unknown")
    /\ (pc = "done" /\ topHolders # << >> => result.tokenStats.topHolders = topHolders)

\* a lookup that settles changes the record of its own address and no other
SettlesOne ==
  (pc = "getCode" /\ topHolders' # topHolders) =>
    \E i \in pendingCode :
      /\ pendingCode' = pendingCode \ {i}
      /\ topHolders' = [topHolders EXCEPT ![i].type = topHolders'[i].type]
      /\ topHolders'[i].type \in {"unknown", KindOf(topHolders[i].address)}
      /\ (topHolders'[i].type = "unknown" => "getCode" \in thrown')
      /\ (topHolders'[i].type # "unknown" => thrown' = thrown)
      /\ pc' = "getCode"

\* C11: classification is best-effort and collects every result.  For any
\* subset of failing lookups and any completion order the engine goes on only
\* after all lookups settled; topHolders has one record per looked-up address
\* in descending-balance order; a failed lookup gives unknown for its own
\* address only; a successful one gives contract for code, wallet for none.
ClassificationCollectsAll == [](ClassifiedAll) /\ [][SettlesOne]_vars

ClassificationCollectsAllWitness ==
  /\ pc = "done"
  /\ Len(result.tokenStats.topHolders) = 2
  /\ result.tokenStats.topHolders[1].type = "unknown"
  /\ result.tokenStats.topHolders[2].type = "contract"

\* ------------------------------------------------ the report of a ledger
\* fetchHolders lines 190-229 and calculateStats, applied to a finished
\* ledger: the holders map is built one entry at a time, then reported
MaxHolders == 11
MaxWide == 3

StatNames == <<"h01", "h02", "h03", "h04", "h05", "h06", "h07", "h08",
               "h09", "h10", "h11", "h12", "h13">>

\* balances in hundredths: the first entries range over the dust boundary,
\* zero and a negative balance, the later ones stay above the threshold
WideBalances == {0 - 2, 0, 1, 2, 5}
NarrowBalances == {2, 5}
StatBalances(k) == IF k <= MaxWide THEN WideBalances ELSE NarrowBalances

StatInit ==
  /\ pc = "idle"
  /\ infuraKey = TRUE
  /\ decimals = 0
  /\ startBlock = 0
  /\ batchSize = 1
  /\ chainHeight = 0
  /\ totalSupply = 0
  /\ endBlock = 0
  /\ fromBlock = 0
  /\ toBlock = 0
  /\ holders = EmptyMap
  /\ thrown = {}
  /\ reqLog = << >>
  /\ topHolders = << >>
  /\ pendingCode = {}
  /\ holdersStats = Null
  /\ result = Null
  /\ replayed = << >>
  /\ chain = << >>
  /\ RoutesIdle
  /\ RetryIdle
  /\ ScansIdle
  /\ ReturnsIdle
  /\ ChartIdle

\* holders.set(address, balance) for an address the map does not hold yet
StatHolder ==
  /\ pc = "idle"
  /\ Len(holders) < MaxHolders
  /\ Len(holders) < Len(StatNames)
  /\ \E b \in StatBalances(Len(holders) + 1) :
       holders' = MapSet(holders, StatNames[Len(holders) + 1], b)
  /\ UNCHANGED <<pc, infuraKey, decimals, startBlock, batchSize, chainHeight,
                 totalSupply, endBlock, fromBlock, toBlock, thrown, reqLog,
                 topHolders, pendingCode, holdersStats, result, replayed, chain,
                 routeVars, retryVars, scans, returns, chart>>

\* classification with every lookup answered (lines 196-208)
Classified(top) ==
  [i \in 1..Len(top) |-> [address |-> top[i].holder, balance |-> top[i].balance,
                          type |-> CodeType(top[i].holder)]]

\* the report of getTokenStats when no request fails and the market cap is null
ReportOf(stats) ==
  [ok |-> TRUE,
   tokenStats |-> [totalSupply |-> stats.totalSupply,
                   marketCap |-> NullCap,
                   topHoldersProportion |-> stats.topHoldersProportion,
                   topHolders |-> stats.topHolders],
   stats |-> calculateStats(stats.filteredHolders)]

\* lines 190-229 and 96-120 in one step
StatReport ==
  /\ pc = "idle"
  /\ topHolders' = Classified(Slice(FilteredHolders(holders), 0, TopN))
  /\ holdersStats' = HoldersStatsOf(holders, topHolders', totalSupply)
  /\ result' = ReportOf(holdersStats')
  /\ pc' = "done"
  /\ UNCHANGED <<infuraKey, decimals, startBlock, batchSize, chainHeight,
                 totalSupply, endBlock, fromBlock, toBlock, holders, thrown,
                 reqLog, pendingCode, replayed, chain, routeVars, retryVars, scans, returns, chart>>

SpecStats == StatInit /\ [][StatHolder \/ StatReport]_vars

\* ----------------------------------------------- the report of a history
\* getTokenStats on a token whose whole history is scanned without a failed
\* request: the ledger is replayed from the events of a consistent ERC-20
\* history and totalSupply() answers the supply that history leaves
MaxHistory == 3

Transfer(from, to, raw) ==
  [args |-> TRUE, from |-> from, to |-> to, raw |-> raw, decodable |-> TRUE]

HistoryPool == { Transfer("0x0", "A", 1000), Transfer("A", "B", 400),
                 Transfer("B", "C", 100), Transfer("0x0", "A", 140),
                 Transfer("A", "B", 70), Transfer("B", "0x0", 70) }

HistoryDecimals == {0, 2}

\* what the token contract's totalSupply() answers after these events, raw
RECURSIVE SupplyOf(_)
SupplyOf(events) ==
  IF events = << >> THEN 0
  ELSE LET e == events[Len(events)]
           rest == SupplyOf(SubSeq(events, 1, Len(events) - 1))
       IN IF e.from = "0x0" /\ e.to # "0x0" THEN rest + e.raw
          ELSE IF e.to = "0x0" /\ e.from # "0x0" THEN rest - e.raw
          ELSE rest

HistoryInit ==
  /\ pc = "idle"
  /\ infuraKey = TRUE
  /\ decimals \in HistoryDecimals
  /\ startBlock = 0
  /\ batchSize = 1
  /\ chainHeight = 0
  /\ totalSupply = 0
  /\ endBlock = 0
  /\ fromBlock = 0
  /\ toBlock = 0
  /\ holders = EmptyMap
  /\ thrown = {}
  /\ reqLog = << >>
  /\ topHolders = << >>
  /\ pendingCode = {}
  /\ holdersStats = Null
  /\ result = Null
  /\ replayed = << >>
  /\ chain = << >>
  /\ RoutesIdle
  /\ RetryIdle
  /\ ScansIdle
  /\ ReturnsIdle
  /\ ChartIdle

\* the next event of the history is replayed (lines 154-183); the token
\* contract never lets an address send more than it holds
HistoryEvent ==
  /\ pc = "idle"
  /\ Len(replayed) < MaxHistory
  /\ \E e \in HistoryPool :
       /\ e.from = "0x0" \/ GetOr0(holders, e.from) >= FormatUnits(e.raw, decimals)
       /\ holders' = ApplyEvent(holders, e, decimals)
       /\ replayed' = Append(replayed, e)
  /\ UNCHANGED <<pc, infuraKey, decimals, startBlock, batchSize, chainHeight,
                 totalSupply, endBlock, fromBlock, toBlock, thrown, reqLog,
                 topHolders, pendingCode, holdersStats, result, chain, routeVars, retryVars, scans, returns, chart>>

\* lines 123-131, 190-229 and 296-322 in one step, no request failing
HistoryReport ==
  /\ pc = "idle"
  /\ totalSupply' = MathRound(FormatUnits(SupplyOf(replayed), decimals))
  /\ topHolders' = Classified(Slice(FilteredHolders(holders), 0, TopN))
  /\ holdersStats' = HoldersStatsOf(holders, topHolders', totalSupply')
  /\ result' = ReportOf(holdersStats')
  /\ pc' = "done"
  /\ UNCHANGED <<infuraKey, decimals, startBlock, batchSize, chainHeight,
                 endBlock, fromBlock, toBlock, holders, thrown,
                 reqLog, pendingCode, replayed, chain, routeVars, retryVars, scans, returns, chart>>

SpecHistory == HistoryInit /\ [][HistoryEvent \/ HistoryReport]_vars

\* ------------------------------------------------- two scans at once
\* two calls of getTokenStats for different tokens whose steps (the code
\* between two awaits) interleave; every variable of fetchHolders is a local
\* of the call, the only module-level binding is the constant infuraKey
MaxPairBlock == 1

PairChains ==
  { << >>,
    << Logged(0, Transfer("0x0", "A", 2)) >>,
    << Logged(0, Transfer("0x0", "A", 2)), Logged(1, Transfer("A", "B", 1)) >>,
    << Logged(1, Transfer("0x0", "B", 2)), Logged(1, Transfer("B", "A", 2)) >> }

\* a call at its first statement, with the token's logs as its chain data
ScanStart(c) ==
  [pc |-> "init", chain |-> c, totalSupply |-> 0, endBlock |-> 0, fromBlock |-> 0,
   holders |-> EmptyMap, result |-> Null]

\* mutant: the ledger is one Map shared by all calls
LedgerShared(s) == scans[1].holders

\* const holders = new Map() inside fetchHolders: the ledger of call s
Ledger(s) == scans[s].holders

\* the code of one call up to its next await, given the ledger it works on
ScanStep(st, ledger) ==
  IF st.pc = "init" THEN [st EXCEPT !.pc = "totalSupply"]
  ELSE IF st.pc = "totalSupply"
  THEN [st EXCEPT !.totalSupply = MathRound(FormatUnits(SupplyOf(EventsOf(st.chain)), 0)),
                  !.pc = "getBlockNumber"]
  ELSE IF st.pc = "getBlockNumber"
  THEN [st EXCEPT !.endBlock = MaxPairBlock, !.fromBlock = 0, !.pc = "loop"]
  ELSE IF st.pc = "loop" /\ st.fromBlock <= st.endBlock
  THEN [st EXCEPT !.holders = Replay(ledger,
                                     QueryFilter(st.chain, st.fromBlock,
                                                 WindowEnd(st.fromBlock, 1, st.endBlock)), 0),
                  !.fromBlock = st.fromBlock + 1]
  ELSE IF st.pc = "loop"
  THEN [st EXCEPT !.result =
                    ReportOf(HoldersStatsOf(ledger,
                                            Classified(Slice(FilteredHolders(ledger), 0, TopN)),
                                            st.totalSupply)),
                  !.pc = "done"]
  ELSE st

PairInit ==
  /\ pc = "idle"
  /\ infuraKey = TRUE
  /\ decimals = 0
  /\ startBlock = 0
  /\ batchSize = 1
  /\ chainHeight = MaxPairBlock
  /\ totalSupply = 0
  /\ endBlock = 0
  /\ fromBlock = 0
  /\ toBlock = 0
  /\ holders = EmptyMap
  /\ thrown = {}
  /\ reqLog = << >>
  /\ topHolders = << >>
  /\ pendingCode = {}
  /\ holdersStats = Null
  /\ result = Null
  /\ replayed = << >>
  /\ chain = << >>
  /\ RoutesIdle
  /\ RetryIdle
  /\ ReturnsIdle
  /\ ChartIdle
  /\ \E c1 \in PairChains, c2 \in PairChains :
       scans = [s \in ScanIds |-> ScanStart(IF s = 1 THEN c1 ELSE c2)]

\* call s runs up to its next await
PairStep(s) ==
  /\ scans[s].pc # "done"
  /\ scans' = [scans EXCEPT ![s] = ScanStep(scans[s], Ledger(s))]
  /\ UNCHANGED <<engineVars, replayed, chain, routeVars, retryVars, returns, chart>>

SpecPair == PairInit /\ [][\E s \in ScanIds : PairStep(s)]_vars

\* ------------------------------------------- calculateStats on numbers
\* calculateStats with the balances as JavaScript numbers; the field
\* walletsHoldingPercentage of a group is left out
MaxArray == 4

\* a < b
LessF64(a, b) == LET d == ExactAdd(a, Negate(b)) IN d.m # << >> /\ d.neg

\* a / n for a whole number n >= 1: the nearest number
F64DivSmall(a, n) ==
  IF a.m = << >> THEN F64Zero
  ELSE LET x == ShiftLeft(a.m, ParseShift)
           dv == DivRange(x, n, 1, Len(x), 0)
           inexact == IF dv.r = 0 THEN 0 ELSE 1
       IN Round53(Canon(a.neg, <<inexact>> \o Trim(dv.q), a.e - ParseShift - 1))

RECURSIVE FromBits(_)
FromBits(x) == IF x = << >> THEN 0 ELSE x[1] + 2 * FromBits(Tail(x))

\* a.toFixed(2) for a >= 0, in hundredths: the whole number nearest to the
\* exact value of 100 a, the larger one of two equally near
ToFixed2F64(a) ==
  IF a.m = << >> THEN 0
  ELSE LET twoHundred == AddMag(AddMag(ShiftLeft(a.m, 7), ShiftLeft(a.m, 6)), ShiftLeft(a.m, 3))
       IN IF a.e >= 0
          THEN FromBits(ShiftRight(ShiftLeft(twoHundred, a.e), 1))
          ELSE FromBits(ShiftRight(AddMag(twoHundred, ShiftLeft(<<1>>, 0 - a.e)), 1 - a.e))

\* holdersArray.reduce((total, { balance }) => total + balance, 0)
RECURSIVE SumBalances64(_)
SumBalances64(a) ==
  IF a = << >> THEN F64Zero
  ELSE F64Add(SumBalances64(SubSeq(a, 1, Len(a) - 1)), a[Len(a)].balance)

RECURSIVE InsertDesc64(_, _)
InsertDesc64(sorted, x) ==
  IF sorted = << >> THEN <<x>>
  ELSE IF ~LessF64(Head(sorted).balance, x.balance)
       THEN <<Head(sorted)>> \o InsertDesc64(Tail(sorted), x)
       ELSE <<x>> \o sorted

RECURSIVE SortDesc64(_)
SortDesc64(a) ==
  IF a = << >> THEN << >>
  ELSE InsertDesc64(SortDesc64(SubSeq(a, 1, Len(a) - 1)), a[Len(a)])

GroupStat64(sorted, g) ==
  LET totalWallets == Len(sorted)
      rangeStartIndex == (g.rangeStart * totalWallets) \div 100
      rangeEndIndex == (g.rangeEnd * totalWallets) \div 100
      walletsInRange == Slice(sorted, rangeStartIndex, rangeEndIndex)
  IN [ rangeStart |-> g.rangeStart,
       rangeEnd |-> g.rangeEnd,
       walletsCount |-> Len(walletsInRange),
       cumulativeBalance |-> ToFixed2F64(SumBalances64(walletsInRange)) ]

calculateStats64(holdersArray) ==
  LET totalTokens == SumBalances64(holdersArray)
      sorted == SortDesc64(holdersArray)
      totalWallets == Len(sorted)
      middleIndex == totalWallets \div 2
      averageBalance == IF totalWallets > 0
                        THEN F64DivSmall(totalTokens, totalWallets)
                        ELSE F64Zero
      medianBalance ==
        IF totalWallets = 0 THEN F64Zero
        ELSE IF totalWallets % 2 = 0
             THEN F64DivSmall(F64Add(sorted[middleIndex].balance,
                                     sorted[middleIndex + 1].balance), 2)
             ELSE sorted[middleIndex + 1].balance
  IN [ totalWallets |-> totalWallets,
       averageBalance |-> ToFixed2F64(averageBalance),
       medianBalance |-> ToFixed2F64(medianBalance),
       groupStats |-> [i \in 1..Len(walletGroups) |-> GroupStat64(sorted, walletGroups[i])] ]

\* balances of holders with two decimals, in raw units
ArrayRaws == {2, 3, 8}

ArrayInit ==
  /\ pc = "idle"
  /\ infuraKey = TRUE
  /\ decimals = 2
  /\ startBlock = 0
  /\ batchSize = 1
  /\ chainHeight = 0
  /\ totalSupply = 0
  /\ endBlock = 0
  /\ fromBlock = 0
  /\ toBlock = 0
  /\ holders = EmptyMap
  /\ thrown = {}
  /\ reqLog = << >>
  /\ topHolders = << >>
  /\ pendingCode = {}
  /\ holdersStats = Null
  /\ result = Null
  /\ replayed = << >>
  /\ chain = << >>
  /\ RoutesIdle
  /\ RetryIdle
  /\ ScansIdle
  /\ ReturnsIdle
  /\ ChartIdle

\* one more element of the array handed to calculateStats
ArrayPush ==
  /\ pc = "idle"
  /\ Len(holders) < MaxArray
  /\ Len(holders) < Len(StatNames)
  /\ \E raw \in ArrayRaws :
       holders' = Append(holders, [holder |-> StatNames[Len(holders) + 1],
                                   balance |-> ParseFloat(raw, decimals)])
  /\ UNCHANGED <<pc, infuraKey, decimals, startBlock, batchSize, chainHeight,
                 totalSupply, endBlock, fromBlock, toBlock, thrown, reqLog,
                 topHolders, pendingCode, holdersStats, result, replayed, chain,
                 routeVars, retryVars, scans, returns, chart>>

\* const stats = calculateStats(holdersArray)
ArrayStats ==
  /\ pc = "idle"
  /\ result' = [ok |-> TRUE, stats |-> calculateStats64(holders)]
  /\ pc' = "done"
  /\ UNCHANGED <<infuraKey, decimals, startBlock, batchSize, chainHeight,
                 totalSupply, endBlock, fromBlock, toBlock, holders, thrown,
                 reqLog, topHolders, pendingCode, holdersStats, replayed, chain,
                 routeVars, retryVars, scans, returns, chart>>

SpecArray == ArrayInit /\ [][ArrayPush \/ ArrayStats]_vars

\* ------------------------------------------------------------ C12
\* the ledger entries that pass the dust filter, by position in the map
AboveDust == {k \in 1..Len(holders) : holders[k].balance > minBalanceThreshold}
IsTop(k) ==
  \E i \in 1..Len(result.tokenStats.topHolders) :
    result.tokenStats.topHolders[i].address = holders[k].holder

\* C12: the reported topHolders are the first min(10, holderCount) filtered
\* holders in descending order: at most 10 records, each a ledger entry with
\* a balance above 0.01, balances never increase along the list, and no
\* address left out holds strictly more than an address in the list.
TopHoldersPrefix ==
  pc = "done" =>
    LET top == result.tokenStats.topHolders
    IN /\ Len(top) = Min(10, Cardinality(AboveDust))
       /\ Len(top) = Min(10, result.stats.totalWallets)
       /\ \A i \in 1..Len(top) :
            /\ top[i].balance > minBalanceThreshold
            /\ \E k \in 1..Len(holders) :
                 holders[k].holder = top[i].address /\ holders[k].balance = top[i].balance
       /\ \A i, j \in 1..Len(top) :
            /\ (i < j => top[i].balance >= top[j].balance)
            /\ (i # j => top[i].address # top[j].address)
       /\ \A k \in 1..Len(holders) :
            ~IsTop(k) => \A i \in 1..Len(top) : holders[k].balance <= top[i].balance

TopHoldersPrefixWitness ==
  /\ pc = "done"
  /\ Cardinality(AboveDust) = 11
  /\ Len(result.tokenStats.topHolders) = 10
  /\ result.tokenStats.topHolders[1].balance > result.tokenStats.topHolders[10].balance

\* ------------------------------------------------------------ C13
\* the ledger without its dust entries, in map order
Kept == SelectSeq(holders, LAMBDA e : e.balance > minBalanceThreshold)

BucketRanks(g, n) ==
  {r \in 0..(n - 1) : (g.rangeStart * n) \div 100 <= r /\ r < (g.rangeEnd * n) \div 100}

RECURSIVE SumCounts(_)
SumCounts(groups) ==
  IF groups = << >> THEN 0 ELSE Head(groups).walletsCount + SumCounts(Tail(groups))

\* C14: for every filtered holder count n the buckets' rank ranges partition
\* the filtered holders: every rank lies in exactly one bucket and the
\* buckets' holder counts sum to n.
BucketsPartition ==
  pc = "done" =>
    LET n == result.stats.totalWallets
    IN /\ \A r \in 0..(n - 1) :
            Cardinality({i \in 1..Len(walletGroups) : r \in BucketRanks(walletGroups[i], n)}) = 1
       /\ SumCounts(result.stats.groupStats) = n

\* ------------------------------------------------------------ C16
\* a holder array with the given balances in whole tokens
Holding(tokens) ==
  [i \in 1..Len(tokens) |-> [holder |-> StatNames[i], balance |-> tokens[i] * Scale]]

\* C16: the median of the filtered holders sorted by balance is the middle
\* balance for an odd count and the mean of the two middle balances (to two
\* decimals) for an even count, 0 for no holders; [100, 50, 25] gives 50 and
\* [100, 60, 40, 20] gives 50.
MedianBalance ==
  /\ pc = "done" =>
       LET sorted == SortDesc(Kept)
           n == Len(sorted)
           median == result.stats.medianBalance
       IN /\ n = 0 => median = 0
          /\ (n > 0 /\ n % 2 = 1) => median = sorted[(n + 1) \div 2].balance
          /\ (n > 0 /\ n % 2 = 0) =>
               LET twice == sorted[n \div 2].balance + sorted[n \div 2 + 1].balance
               IN /\ 2 * median >= twice
                  /\ 2 * median <= twice + 1
  /\ calculateStats(Holding(<<100, 50, 25>>)).medianBalance = 50 * Scale
  /\ calculateStats(Holding(<<100, 60, 40, 20>>)).medianBalance = 50 * Scale
  /\ calculateStats(Holding(<<25, 100, 50>>)).medianBalance = 50 * Scale
  /\ calculateStats(<< >>).medianBalance = 0

MedianBalanceWitness ==
  /\ pc = "done"
  /\ result.stats.totalWallets = 4
  /\ SortDesc(Kept)[2].balance = 5
  /\ SortDesc(Kept)[3].balance = 2
  /\ result.stats.medianBalance = 4

\* ------------------------------------------------------------ C15
\* C15: in every report topHoldersProportion lies in [0, 100] when
\* totalSupply > 0 and is 0 when totalSupply = 0 (percent, in hundredths).
ConcentrationBound ==
  pc = "done" =>
    LET pct == result.tokenStats.topHoldersProportion
    IN /\ result.tokenStats.totalSupply > 0 => (0 <= pct /\ pct <= 100 * Scale)
       /\ result.tokenStats.totalSupply = 0 => pct = 0

\* ------------------------------------------------------------ C17
Fixture == <<Transfer("0x0", "A", 1000), Transfer("A", "B", 400), Transfer("B", "C", 100)>>

\* C17: for the history mint 1000 to A, 400 from A to B, 100 from B to C
\* with decimals 0 and a total supply of 1000, the report has balances
\* A = 600, B = 300, C = 100, holderCount 3, average 333.33, median 300 and
\* a top-10 concentration of 100.
EndToEnd ==
  (pc = "done" /\ decimals = 0 /\ replayed = Fixture) =>
    /\ Get(holders, "A") = 600 * Scale
    /\ Get(holders, "B") = 300 * Scale
    /\ Get(holders, "C") = 100 * Scale
    /\ result.ok
    /\ result.tokenStats.totalSupply = 1000
    /\ result.tokenStats.topHolders =
         << [address |-> "A", balance |-> 600 * Scale, type |-> "wallet"],
            [address |-> "B", balance |-> 300 * Scale, type |-> "contract"],
            [address |-> "C", balance |-> 100 * Scale, type |-> "wallet"] >>
    /\ result.stats.totalWallets = 3
    /\ result.stats.averageBalance = 33333
    /\ result.stats.medianBalance = 300 * Scale
    /\ result.tokenStats.topHoldersProportion = 100 * Scale

EndToEndWitness ==
  /\ pc = "done"
  /\ decimals = 0
  /\ replayed = Fixture
  /\ result.stats.totalWallets = 3

\* ------------------------------------------------------------ C18
ChainOps == {"totalSupply", "getBlockNumber", "queryFilter", "getCode"}
SentAgain(op) ==
  \E i, j \in 1..Len(reqLog) : i < j /\ reqLog[i] = reqLog[j] /\ reqLog[i].op = op

\* C18: a chain request that is turned down (rate limited) is sent again: it
\* neither fails the scan outright nor is its data left out of the report.
RateLimitTolerated ==
  /\ \A op \in thrown \cap ChainOps : Terminal => SentAgain(op)
  /\ pc = "failed" => thrown \cap ChainOps = {}
  /\ (pc = "done" /\ "getCode" \in thrown) =>
       \A i \in 1..Len(result.tokenStats.topHolders) :
         result.tokenStats.topHolders[i].type # "unknown"

\* ------------------------------------------------------------ C19
RateLimitedAll(n) == \A i \in 1..n : responses[i].status = 429

RetryProtocolState ==
  /\ Len(responses) <= maxRetries
  /\ RateLimitedAll(Len(responses) - 1)
  /\ fetchResult = "data" <=>
       (responses # << >> /\ responses[Len(responses)].status = 200)
  /\ fetchResult = "error" <=>
       (responses # << >> /\ responses[Len(responses)].status \notin {200, 429})
  /\ fetchResult = "maxRetries" <=>
       (fetchPc = "threw" /\ Len(responses) = maxRetries /\ RateLimitedAll(maxRetries))
  /\ fetchResult = "pending" <=> fetchPc \in {"post", "wait"}
  /\ Len(waits) = Cardinality({i \in 1..Len(responses) : responses[i].status = 429})
  /\ \A i \in 1..Len(waits) :
       waits[i] = IF responses[i].retryAfter # << >>
                  THEN responses[i].retryAfter[1] * 1000
                  ELSE delay * 2 ^ (i - 1)

\* a request is sent only while the call is pending, and after every wait
\* that the earlier answers asked for
RetryProtocolStep ==
  responses' # responses =>
    /\ fetchResult = "pending"
    /\ Len(responses') = Len(responses) + 1
    /\ Len(waits) = Len(responses)
    /\ attempts = Len(responses)

\* C19: fetchWithRetry returns the first successful response; every 429
\* answer is followed by a wait of the retry-after hint if there is one and of
\* delay * 2^attempts otherwise, then by one more request; at most maxRetries
\* requests are sent; after maxRetries 429 answers in a row the call fails
\* with max-retries-exceeded; any other error ends the call at once.
RetryProtocol == [](RetryProtocolState) /\ [][RetryProtocolStep]_vars

RetryProtocolWitness ==
  /\ maxRetries = DefaultMaxRetries
  /\ fetchResult = "data"
  /\ waits = <<1000, 3000, 4000>>

\* ------------------------------------------------------------ C20
\* the windows whose answer (events or error) the loop has finished with
Settled == IF Windows = << >> THEN 0 ELSE (fromBlock - startBlock) \div batchSize
Outstanding == Len(Windows) - Settled

OneOutstanding ==
  /\ Outstanding \in {0, 1}
  /\ Outstanding = 1 <=> pc = "queryFilter"

SequentialStep ==
  /\ Len(Windows') > Len(Windows) =>
       /\ Len(Windows') = Len(Windows) + 1
       /\ Outstanding = 0
       /\ holders' = holders
  /\ (holders' # holders \/ "queryFilter" \in thrown' \ thrown) =>
       /\ Outstanding = 1
       /\ Outstanding' = 0
       /\ Windows' = Windows

\* C20: within one scan at most one log request is outstanding, and the
\* request for the next window is sent only after the answer (or error) of
\* the previous one has been worked into the ledger.
WindowsSequential == [](OneOutstanding) /\ [][SequentialStep]_vars

WindowsSequentialWitness ==
  /\ pc = "queryFilter"
  /\ Len(Windows) = 2
  /\ "queryFilter" \notin thrown
  /\ holders # EmptyMap

\* ------------------------------------------------------------ C21
\* the report without its market cap
HolderPart(report) ==
  [totalSupply |-> report.tokenStats.totalSupply,
   topHoldersProportion |-> report.tokenStats.topHoldersProportion,
   topHolders |-> report.tokenStats.topHolders,
   stats |-> report.stats]

HolderPartOf(scan) ==
  [totalSupply |-> scan.totalSupply,
   topHoldersProportion |-> scan.topHoldersProportion,
   topHolders |-> scan.topHolders,
   stats |-> calculateStats(scan.filteredHolders)]

LookupFails(response) == response.rejects \/ response.status # 200 \/ ~response.hasUsd

MarketCapState ==
  /\ \A response \in MarketCapResponses :
       LookupFails(response) => fetchMarketCap(response) = NullCap
  /\ pc = "done" =>
       /\ result.ok
       /\ result.tokenStats.marketCap \in MarketCaps
       /\ HolderPart(result) = HolderPartOf(holdersStats)

\* once the scan has succeeded the lookup's outcome decides the market cap
\* and nothing else
MarketCapStep ==
  (pc = "marketCap" /\ (pc' # pc \/ result' # result)) =>
    /\ holdersStats.ok
    /\ pc' = "done"
    /\ result'.ok
    /\ HolderPart(result') = HolderPartOf(holdersStats)

\* C21: when the holder scan succeeds getTokenStats returns the complete
\* report whatever the market-cap lookup does: marketCap is null if the lookup
\* rejects, answers another status than 200 or carries no USD value, and the
\* holder statistics are those of a run whose lookup succeeded.
MarketCapOptional == [](MarketCapState) /\ [][MarketCapStep]_vars

MarketCapOptionalWitness ==
  /\ pc = "done"
  /\ result.ok
  /\ result.tokenStats.marketCap = NullCap
  /\ result.stats.totalWallets = 2

\* ------------------------------------------------------------ C22
\* the call on chain data c, run alone, after k of its steps
RECURSIVE Alone(_, _)
Alone(c, k) ==
  IF k = 0 THEN ScanStart(c)
  ELSE LET before == Alone(c, k - 1) IN ScanStep(before, before.holders)

AloneSteps == MaxPairBlock + 5

\* C22: when two scans of different tokens interleave, each scan's ledger
\* and final report are those it produces when run alone on the same chain
\* data.
ScansIndependent ==
  \A s \in ScanIds :
    /\ \E k \in 0..AloneSteps : scans[s] = Alone(scans[s].chain, k)
    /\ scans[s].pc = "done" => scans[s] = Alone(scans[s].chain, AloneSteps)

ScansIndependentWitness ==
  /\ scans[1].pc = "done"
  /\ scans[2].pc = "done"
  /\ Len(scans[1].holders) = 3
  /\ Len(scans[2].holders) = 2
  /\ scans[1].result.stats.totalWallets = 2
  /\ scans[2].result.stats.totalWallets = 1

\* ------------------------------------------------------------ C23
\* thresholds in hundredths, below, between and above the ledger's balances
Thresholds == {0 - 3, 0, 1, 2, 3, 5, 6}

\* C23: for any final ledger and thresholds t1 <= t2 the holder count under
\* t2 is at most the holder count under t1.
FilterMonotone ==
  \A t1, t2 \in Thresholds :
    t1 <= t2 => Len(FilterAbove(holders, t2)) <= Len(FilterAbove(holders, t1))

FilterMonotoneWitness ==
  /\ pc = "done"
  /\ result.stats.totalWallets = Len(FilterAbove(holders, minBalanceThreshold))
  /\ Len(FilterAbove(holders, 0)) = 3
  /\ Len(FilterAbove(holders, minBalanceThreshold)) = 2
  /\ Len(FilterAbove(holders, 2)) = 1
  /\ Len(FilterAbove(holders, 5)) = 0

\* ------------------------------------------------------------ C24
Permuted(a, p) == [i \in 1..Len(a) |-> a[p[i]]]

RECURSIVE NetOf(_, _, _)
NetOf(events, a, d) ==
  IF events = << >> THEN F64Zero
  ELSE LET e == events[Len(events)]
           rest == NetOf(SubSeq(events, 1, Len(events) - 1), a, d)
           amount == ParseFloat(e.raw, d)
           in == IF ~Skipped(e) /\ e.to = a THEN amount ELSE F64Zero
           out == IF ~Skipped(e) /\ e.from = a THEN Negate(amount) ELSE F64Zero
       IN ExactAdd(rest, ExactAdd(in, out))

\* C25: with no failing request the final balance of every address is the
\* sum of the amounts of the well-formed events sent to it minus the sum of
\* those sent from it, each event counted once; it may be negative.
ExactlyOnce ==
  \A a \in Addr :
    IF Has(holders, a) THEN Get(holders, a) = NetOf(replayed, a, decimals)
    ELSE NetOf(replayed, a, decimals) = F64Zero

\* ------------------------------------------------------------ C26
\* an event the loop has to skip
Malformed(e) == ~e.args \/ e.from = "" \/ e.to = "" \/ e.raw = 0 \/ ~e.decodable

\* the ledger that the events which are not skipped leave, one after another
RECURSIVE LedgerOfWellFormed(_, _)
LedgerOfWellFormed(events, d) ==
  IF events = << >> THEN EmptyMap
  ELSE LET e == events[Len(events)]
           before == LedgerOfWellFormed(SubSeq(events, 1, Len(events) - 1), d)
       IN IF Malformed(e) THEN before
          ELSE ApplyTransfer(before, e.from, e.to, FormatUnits(e.raw, d))

SkipLedgerState == holders = LedgerOfWellFormed(replayed, decimals)

SkipKeepsLedger ==
  (replayed' # replayed /\ Malformed(replayed'[Len(replayed')])) => holders' = holders

\* C26: an event without args, without from, to or value, or with an amount
\* that does not decode leaves the ledger as it was (no balance changed, no
\* entry created), and the events after it are still processed.
SkipHasNoEffect ==
  [](SkipLedgerState) /\ [][SkipKeepsLedger]_vars

SkipHasNoEffectWitness ==
  /\ Len(replayed) = 3
  /\ ~Malformed(replayed[1])
  /\ replayed[2] = BadValueEvent
  /\ ~Malformed(replayed[3])
  /\ replayed[3].to = "B"
  /\ replayed[1].to = "A"
  /\ replayed[1].from = "0x0"
  /\ replayed[3].from = "A"
  /\ Len(holders) = 3

\* ------------------------------------------------------------ C27
\* ceil((endBlock - startBlock + 1) / batchSize) windows, none for an empty range
WindowCount ==
  IF startBlock <= endBlock
  THEN (endBlock - startBlock + 1 + batchSize - 1) \div batchSize
  ELSE 0

LogRequestCount == LoopLeft => Len(Windows) = WindowCount

\* C27: if every request is answered or fails in the end, a scan with any
\* startBlock and window size reaches done or failed; once the window loop is
\* left it has sent exactly ceil((endBlock - startBlock + 1) / batchSize)
\* log requests, none when startBlock > endBlock.
ScanTerminates == <>Terminal /\ [](LogRequestCount)

ScanTerminatesWitness ==
  /\ pc = "done"
  /\ startBlock = 0
  /\ endBlock = 2
  /\ batchSize = 2
  /\ Len(Windows) = 2

\* the positions of dailyRefresh inside fetchAndUpdateTokenStats and inside
\* fetchAndUpdateTreasuries
TokenPcs == {"tokensFind", "tokenRead", "tokenCheck", "tokenScan"}
TreasuryPcs == {"treasuryRead", "treasuryFetch"}

\* the treasury refresh is entered only from the token refresh, at its end (the
\* last token of the list, or the outer catch), and never left for it
TreasuriesAfterTokensStep ==
  /\ (daily.pc \notin TreasuryPcs /\ daily'.pc \in TreasuryPcs) =>
        /\ daily.pc \in TokenPcs /\ daily'.pc = "treasuryRead"
        /\ daily.pc \in {"tokenCheck", "tokenScan"} => daily.i = Len(daily.list)
  /\ daily.pc \in TreasuryPcs => daily'.pc \notin TokenPcs
  /\ daily.pc = "idle" => daily'.pc \in {"idle", "tokensFind"}

\* C28: in every run of dailyRefresh the treasury refresh starts only after
\* the token-stats refresh is over, and it always starts: no failed scan, no
\* database error in the token refresh and no failed notification keeps
\* dailyRefresh from reaching fetchAndUpdateTreasuries.
TreasuriesAlwaysStart ==
  /\ [][TreasuriesAfterTokensStep]_vars
  /\ (daily.pc \in TokenPcs) ~> (daily.pc = "treasuryRead")

\* the treasury refresh has started in a pass that stored no token: every
\* stored token is as it was although the 15 minutes were over
TreasuriesAlwaysStartWitness ==
  /\ daily.pc = "treasuryRead"
  /\ daily.date >= RecomputeMinutes
  /\ \A t \in Range(Tokens) : tokenDb[t] = OldToken

IsPrefix(p, q) == Len(p) <= Len(q) /\ \A i \in 1..Len(p) : q[i] = p[i]

\* a step of the daily refresh that stores the record of token t
DailyStores(t) ==
  daily.pc = "tokenScan" /\ DailyTarget = t /\ daily' # daily /\ tokenDb'[t] # tokenDb[t]

\* C29: the holder-count history of a token is append-only.  A daily refresh
\* that stores a token appends exactly one point (day timestamp, holder count
\* of that scan) after all stored points, and no step of a daily or manual
\* refresh removes or overwrites a stored point of holders_graph.
HoldersGraphAppendOnly ==
  [][\A t \in Range(Tokens) :
       /\ IsPrefix(tokenDb[t].holders_graph, tokenDb'[t].holders_graph)
       /\ DailyStores(t) =>
             tokenDb'[t].holders_graph =
               Append(tokenDb[t].holders_graph,
                      <<DayOf(clock), tokenDb'[t].total_holders>>)]_vars

\* C30: the guard flag is accurate.  In each refresh route module isRunning
\* is true in every state in which a background job started by that route is
\* in flight: no request path has set it to false while a job still runs.
GuardAccurate ==
  /\ JobsOf("token") # {} => isRunningToken
  /\ JobsOf("treasury") # {} => isRunningTreasury

\* the flag is set only while a job of the route is in flight, and a request
\* answered 429 arrived while one was
GuardHeldByJob ==
  /\ isRunningToken => JobsOf("token") # {}
  /\ isRunningTreasury => JobsOf("treasury") # {}
  /\ \A id \in 1..MaxRequests : reqs[id].status = 429 => reqs[id].jobAtArrival

\* C31: the guard is always released.  Whenever a background job of a refresh
\* route ends, by success, by a null scan result or by an exception, isRunning
\* becomes false again, so no request is answered 429 when no job is in flight.
GuardReleased ==
  /\ [](GuardHeldByJob)
  /\ isRunningToken ~> ~isRunningToken
  /\ isRunningTreasury ~> ~isRunningTreasury

\* a token job has ended and the flag is down with no job in flight
GuardReleasedWitness ==
  /\ \E id \in 1..MaxRequests :
       reqs[id].kind = "token" /\ reqs[id].pc = "done" /\ reqs[id].status = 202
  /\ ~isRunningToken
  /\ JobsOf("token") = {}

\* a step in which the scan of a manual job, or of the daily refresh, fails
ManualScanFails(id) ==
  reqs[id].kind = "token" /\ reqs[id].pc = "job" /\ reqs'[id].scanResult = "null"
DailyScanFails ==
  daily.pc = "tokenScan" /\ daily' # daily /\ daily'.scanResult = "null"

\* C32: a failed token scan changes nothing in storage.  When getTokenStats
\* returns null or throws in a manual or daily token refresh, the stored token
\* records are left exactly as they were, and the daily refresh goes on with
\* the next token of its list (the treasuries after the last one).
FailedScanStoresNothing ==
  [][/\ \A id \in 1..MaxRequests :
          ManualScanFails(id) => tokenDb' = tokenDb /\ reqs'[id].pc = "release"
     /\ DailyScanFails =>
          /\ tokenDb' = tokenDb
          /\ daily'.pc = (IF daily.i < Len(daily.list) THEN "tokenRead" ELSE "treasuryRead")
          /\ daily.i < Len(daily.list) => daily'.i = daily.i + 1]_vars

\* a manual job whose scan failed finds its token's record as it read it, and
\* the daily refresh is at its second token after the scan of the first failed
FailedScanStoresNothingWitness ==
  /\ \E id \in 1..MaxRequests :
       /\ reqs[id].pc = "release" /\ reqs[id].scanResult = "null"
       /\ reqs[id].tokenEntry.exists
       /\ tokenDb[reqs[id].target] = reqs[id].tokenEntry
  /\ daily.pc = "tokenRead" /\ daily.i = 2 /\ daily.scanResult = "null"

\* C33: the treasury history of a DAO is append-only under concurrency.  Every
\* step of a manual or daily treasury refresh that writes a DAO's record
\* appends exactly one point to historical_treasury, so a point stored by one
\* refresh is still there after the other one writes.
TreasuryHistoryAppendOnly ==
  [][\A d \in Range(Daos) :
       treasuryDb'[d] # treasuryDb[d] =>
         /\ IsPrefix(treasuryDb[d].historical_treasury, treasuryDb'[d].historical_treasury)
         /\ Len(treasuryDb'[d].historical_treasury)
              = Len(treasuryDb[d].historical_treasury) + 1]_vars

\* a step in which a manual job, or the daily refresh, stores what a failed
\* call of getTreasuryHoldings returned
ManualStoresFailed(id) ==
  reqs[id].kind = "treasury" /\ reqs[id].pc = "job" /\ reqs'[id].stored = "failed"
DailyStoresFailed ==
  daily.pc = "treasuryFetch" /\ daily' # daily /\ daily'.stored = "failed"

\* the record of a DAO after a refresh that read entry stored the neutral value
StoredAsZero(d, entry, date) ==
  /\ treasuryDb'[d].exists
  /\ treasuryDb'[d].last_updated = date
  /\ treasuryDb'[d].total_treasury_value = 0
  /\ treasuryDb'[d].tokens = << >>
  /\ treasuryDb'[d].historical_treasury
       = Append(IF entry.exists THEN entry.historical_treasury ELSE << >>,
                [date |-> date, balance |-> 0])

\* on a missing key, a failed ETH-balance request or a failed token-balance
\* request getTreasuryHoldings returns the neutral value
NeutralOnFailure ==
  \A input \in TreasuryInputs :
    FetchFailed(input) => getTreasuryHoldings(input) = NeutralHoldings

FailedFetchStoredStep ==
  /\ \A id \in 1..MaxRequests :
       ManualStoresFailed(id) =>
         StoredAsZero(reqs[id].target, reqs[id].treasuryEntry, reqs[id].date)
  /\ DailyStoresFailed => StoredAsZero(DailyTarget, daily.treasuryEntry, daily.date)

\* C34: getTreasuryHoldings never propagates an error: on a missing API key,
\* a failed ETH-balance request or a failed token-balance request it returns
\* usdBalance 0.00 and no tokens, and a treasury refresh that receives this
\* value stores it like a treasury worth 0: total_treasury_value 0, an empty
\* token list and one more point of balance 0 in historical_treasury.
FailedFetchStoredAsZero == [](NeutralOnFailure) /\ [][FailedFetchStoredStep]_vars

\* the daily refresh has stored a failed fetch over a record that held a value
FailedFetchStoredAsZeroWitness ==
  /\ daily.stored = "failed"
  /\ \E d \in Range(Daos) :
       /\ treasuryDb[d].total_treasury_value = 0
       /\ treasuryDb[d].tokens = << >>
       /\ Len(treasuryDb[d].historical_treasury) = 2
       /\ treasuryDb[d].historical_treasury[1].balance = 5
       /\ treasuryDb[d].historical_treasury[2].balance = 0

\* the sum of the balances at the given 0-based ranks of a sorted holder list
RECURSIVE SumRanks(_, _)
SumRanks(sorted, ranks) ==
  IF ranks = {} THEN 0
  ELSE LET r == CHOOSE x \in ranks : TRUE
       IN sorted[r + 1].balance + SumRanks(sorted, ranks \ {r})

\* C35: for every holder count n the four buckets of calculateStats cover the
\* rank ranges [floor(lo*n/100), floor(hi*n/100)) of the descending-sorted
\* holders for (lo,hi) = (0,10), (10,25), (25,50), (50,80): the ranges start at
\* rank 0, are contiguous, ascending and pairwise disjoint, each bucket reports
\* the count and the balance sum of its ranks, every balance of an earlier
\* bucket is >= every balance of a later one, and the counts sum to
\* floor(80*n/100).
BucketsCover ==
  (pc = "done" /\ result.ok) =>
    LET n == result.stats.totalWallets
        sorted == holdersStats.filteredHolders
        groups == result.stats.groupStats
        ranks(i) == BucketRanks(walletGroups[i], n)
        lo(i) == (walletGroups[i].rangeStart * n) \div 100
        hi(i) == (walletGroups[i].rangeEnd * n) \div 100
    IN /\ Len(groups) = 4 /\ n = Len(sorted)
       /\ lo(1) = 0
       /\ \A i \in 1..3 : hi(i) = lo(i + 1)
       /\ \A i \in 1..4 : lo(i) <= hi(i)
       /\ \A i, j \in 1..4 : i # j => ranks(i) \cap ranks(j) = {}
       /\ \A i \in 1..4 :
            /\ groups[i].walletsCount = hi(i) - lo(i)
            /\ groups[i].walletsCount = Cardinality(ranks(i))
            /\ groups[i].cumulativeBalance = SumRanks(sorted, ranks(i))
       /\ \A i, j \in 1..4 : i < j =>
            \A r \in ranks(i), q \in ranks(j) : sorted[r + 1].balance >= sorted[q + 1].balance
       /\ SumCounts(groups) = (80 * n) \div 100

\* eleven holders of two different balances: all four buckets are non-empty
BucketsCoverWitness ==
  /\ pc = "done" /\ result.ok
  /\ result.stats.totalWallets = 11
  /\ \A i \in 1..4 : result.stats.groupStats[i].walletsCount > 0
  /\ result.stats.groupStats[1].cumulativeBalance > result.stats.groupStats[2].cumulativeBalance

\* ------------------------------------------------------ getClosestValue
MaxPoints == 3       \* entries of historical_treasury
MaxDate == 4         \* dates and target times 0..MaxDate
PointBalances == {0, 5}

Abs(x) == IF x < 0 THEN 0 - x ELSE x

RECURSIVE ClosestEntry(_, _, _, _)
\* historicalData.reduce((prev, curr) => |curr.date - t| < |prev.date - t| ? curr : prev)
\* from entry i on, prev being the entry kept so far
ClosestEntry(historicalData, targetTime, prev, i) ==
  IF i > Len(historicalData) THEN prev
  ELSE LET curr == historicalData[i]
       IN ClosestEntry(historicalData, targetTime,
                       IF Abs(curr.date - targetTime) < Abs(prev.date - targetTime)
                       THEN curr ELSE prev,
                       i + 1)

\* null is << >>; balances are numbers, which parseFloat(...) || 0 gives back
getClosestValue(historicalData, targetTime) ==
  IF Len(historicalData) = 0 THEN << >>
  ELSE LET closestEntry == ClosestEntry(historicalData, targetTime, historicalData[1], 2)
       IN IF closestEntry.date > targetTime THEN << >>
          ELSE <<closestEntry.balance>>

ReturnsInit ==
  /\ pc = "idle"
  /\ infuraKey = TRUE
  /\ decimals = 0
  /\ startBlock = 0
  /\ batchSize = 1
  /\ chainHeight = 0
  /\ totalSupply = 0
  /\ endBlock = 0
  /\ fromBlock = 0
  /\ toBlock = 0
  /\ holders = EmptyMap
  /\ thrown = {}
  /\ reqLog = << >>
  /\ topHolders = << >>
  /\ pendingCode = {}
  /\ holdersStats = Null
  /\ result = Null
  /\ replayed = << >>
  /\ chain = << >>
  /\ RoutesIdle
  /\ RetryIdle
  /\ ScansIdle
  /\ ReturnsIdle
  /\ ChartIdle

\* a refresh has appended a point: the dates of a history never decrease
ReturnsPush ==
  /\ returns.pc = "idle"
  /\ Len(returns.historicalData) < MaxPoints
  /\ LET h == returns.historicalData
         from == IF h = << >> THEN 0 ELSE h[Len(h)].date
     IN \E date \in from..MaxDate, balance \in PointBalances :
          returns' = [returns EXCEPT
                        !.historicalData = Append(h, [date |-> date, balance |-> balance])]
  /\ UNCHANGED <<engineVars, replayed, chain, routeVars, retryVars, scans, chart>>

\* const pastValue = getClosestValue(historicalTreasury, timeOffsets[key])
ReturnsGet ==
  /\ returns.pc = "idle"
  /\ \E targetTime \in 0..MaxDate :
       returns' = [returns EXCEPT
                     !.pc = "done", !.targetTime = targetTime,
                     !.pastValue = getClosestValue(returns.historicalData, targetTime)]
  /\ UNCHANGED <<engineVars, replayed, chain, routeVars, retryVars, scans, chart>>

SpecReturns == ReturnsInit /\ [][ReturnsPush \/ ReturnsGet]_vars

\* the entries of the history dated at or before the target time
PastEntries ==
  { i \in 1..Len(returns.historicalData) :
      returns.historicalData[i].date <= returns.targetTime }

\* C36: getClosestValue returns null only when there is no valid past data.
\* For any non-empty history and target time, if some entry is dated at or
\* before the target time the call returns the balance of an entry dated at
\* or before the target time, and it never returns the balance of an entry
\* dated after the target time.
ClosestPastValue ==
  returns.pc = "done" =>
    /\ PastEntries # {} => returns.pastValue # << >>
    /\ returns.pastValue # << >> =>
         \E i \in PastEntries : returns.historicalData[i].balance = returns.pastValue[1]

\* ------------------------------------------------- GET /chart/:query
MaxChartRequests == 3     \* requests for the one (id, days) key
MaxChartClock == 360      \* seconds
SecondsPerTick == 120     \* seconds per clock step
DataTTL == 300            \* new NodeCache({ stdTTL: 300, ... })
NotFoundTTL == 120        \* new NodeCache({ stdTTL: 120 })

\* response.data of an upstream 2xx answer: an empty body or a chart
ChartBodies == {"", "chart"}

\* if (cachedData): the empty string is falsy
Truthy(data) == data # ""

\* NodeCache.get: an entry is returned until its time to live is over
Live(entry) == entry # << >> /\ chart.now <= entry[1].expires

ChartInit ==
  /\ pc = "idle"
  /\ infuraKey = TRUE
  /\ decimals = 0
  /\ startBlock = 0
  /\ batchSize = 1
  /\ chainHeight = 0
  /\ totalSupply = 0
  /\ endBlock = 0
  /\ fromBlock = 0
  /\ toBlock = 0
  /\ holders = EmptyMap
  /\ thrown = {}
  /\ reqLog = << >>
  /\ topHolders = << >>
  /\ pendingCode = {}
  /\ holdersStats = Null
  /\ result = Null
  /\ replayed = << >>
  /\ chain = << >>
  /\ RoutesIdle
  /\ RetryIdle
  /\ ScansIdle
  /\ ReturnsIdle
  /\ ChartIdle

ChartTick ==
  /\ chart.now < MaxChartClock
  /\ chart' = [chart EXCEPT !.now = chart.now + SecondsPerTick]
  /\ UNCHANGED <<engineVars, replayed, chain, routeVars, retryVars, scans, returns>>

\* a request arrives: the cached 404, else the cached data, else axios.get is awaited
ChartRequest ==
  /\ Len(chart.reqs) < MaxChartRequests
  /\ LET cached404 == Live(chart.cache404)
         cachedData == IF Live(chart.cache) THEN <<chart.cache[1].data>> ELSE << >>
         r == [NoChartReq EXCEPT !.dataAtArrival = cachedData,
                                 !.notFoundAtArrival = cached404]
     IN IF cached404
        THEN chart' = [chart EXCEPT
                         !.reqs = Append(@, [r EXCEPT !.pc = "done", !.status = 404])]
        ELSE IF cachedData # << >> /\ Truthy(cachedData[1])
        THEN chart' = [chart EXCEPT
                         !.reqs = Append(@, [r EXCEPT !.pc = "done", !.status = 200,
                                                      !.body = cachedData])]
        ELSE chart' = [chart EXCEPT
                         !.reqs = Append(@, [r EXCEPT !.pc = "upstream", !.upstream = TRUE]),
                         !.upstreamCalls = @ + 1]
  /\ UNCHANGED <<engineVars, replayed, chain, routeVars, retryVars, scans, returns>>

\* axios.get resolved (a 2xx status): cache.set, then the data is sent
ChartUpstreamOk ==
  /\ \E id \in 1..Len(chart.reqs), data \in ChartBodies :
       /\ chart.reqs[id].pc = "upstream"
       /\ chart' = [chart EXCEPT
                      !.cache = << [data |-> data, expires |-> chart.now + DataTTL] >>,
                      !.reqs[id].pc = "done", !.reqs[id].status = 200,
                      !.reqs[id].body = <<data>>]
  /\ UNCHANGED <<engineVars, replayed, chain, routeVars, retryVars, scans, returns>>

\* axios.get rejected with status 404: cache404.set, 404
ChartUpstream404 ==
  /\ \E id \in 1..Len(chart.reqs) :
       /\ chart.reqs[id].pc = "upstream"
       /\ chart' = [chart EXCEPT
                      !.cache404 = << [expires |-> chart.now + NotFoundTTL] >>,
                      !.reqs[id].pc = "done", !.reqs[id].status = 404]
  /\ UNCHANGED <<engineVars, replayed, chain, routeVars, retryVars, scans, returns>>

\* axios.get rejected otherwise: 500, nothing is cached
ChartUpstreamError ==
  /\ \E id \in 1..Len(chart.reqs) :
       /\ chart.reqs[id].pc = "upstream"
       /\ chart' = [chart EXCEPT !.reqs[id].pc = "done", !.reqs[id].status = 500]
  /\ UNCHANGED <<engineVars, replayed, chain, routeVars, retryVars, scans, returns>>

ChartNext ==
  \/ ChartTick
  \/ ChartRequest
  \/ ChartUpstreamOk
  \/ ChartUpstream404
  \/ ChartUpstreamError

SpecChart == ChartInit /\ [][ChartNext]_vars

\* a request that found the data entry cached is answered with it, one that
\* found the 404 entry cached is answered 404; neither contacts upstream
ChartServedFromCache ==
  \A id \in 1..Len(chart.reqs) :
    LET r == chart.reqs[id]
    IN /\ r.dataAtArrival # << >> =>
            r.pc = "done" /\ r.status = 200 /\ r.body = r.dataAtArrival /\ ~r.upstream
       /\ r.notFoundAtArrival => r.pc = "done" /\ r.status = 404 /\ ~r.upstream

\* an upstream failure other than 404 leaves both caches as they were
ChartErrorNotCached ==
  \A id \in 1..Len(chart.reqs) :
    (chart.reqs[id].pc = "upstream" /\ chart'.reqs[id].status = 500) =>
      chart'.cache = chart.cache /\ chart'.cache404 = chart.cache404

\* C37: market-chart cache protocol for a fixed (id, days) key.  After an
\* upstream 2xx answer every request made while the entry is cached is
\* answered with the cached data and causes no upstream request; after an
\* upstream 404 every request made while the 404 entry is cached is answered
\* 404 with no upstream request; an upstream failure other than 404 is never
\* cached.
ChartCacheProtocol == [](ChartServedFromCache) /\ [][ChartErrorNotCached]_vars
====
